---------------------------- MODULE Spec2Model ----------------------------
(***************************************************************************)
(* A model of the wallet core of LividoEU/crypto-wallet:                   *)
(*   - WalletScannerService   (gap-limit discovery of one branch),         *)
(*   - WalletTransactionService (fee engine, coin selection, UTXO locks,   *)
(*     sign / broadcast),                                                  *)
(*   - WalletSessionService   (login / logout / refreshBalance),           *)
(*   - SendDialog             (input / confirm / broadcasting / result).   *)
(* The specifications of the module:                                       *)
(*   SpecScan     one branch scan against a chain-data client,             *)
(*   SpecScanFair the same, with every pending request answered,           *)
(*   SpecWallet   scanWallet: both branches joined, then the fetches,      *)
(*   SpecSelect   the pure coin selection applied to drawn inputs,         *)
(*   SpecValidate validateSend applied to drawn inputs,                    *)
(*   SpecFee      calculateFee applied to drawn sizes and fee rates,       *)
(*   SpecLocks    the lock interface called directly, with refreshes,      *)
(*   Spec         the session and the transaction service interleaved,     *)
(*   SpecDialog   the same, driven through the send dialog.                *)
(***************************************************************************)
EXTENDS Integers, Sequences, FiniteSets, TLC

VARIABLES
    \* ---- scanWallet (wallet-scanner.ts) ----
    walletScan,       \* one scanWallet subscription: branches joined, fetches, result
    \* ---- branch scan (wallet-scanner.ts) ----
    chainUsed,        \* indices the chain-data client knows as used (n_tx > 0)
    scanState,        \* the ScanState accumulator carried by expand()
    scanPc,           \* "idle" | "multi" | "individual" | "done"
    branchResult,     \* the BranchScanResult emitted, or NoResult
    requestedBatches, \* history: start index of every batch whose balances were requested
    seenUsed,         \* history: indices whose AddressBalance had transactionCount > 0
    \* ---- WalletSessionService signals (part_009) ----
    mnemonic,                \* #mnemonic, NullStr when null
    isLoggedIn,              \* #isLoggedIn
    balanceSatoshis,         \* #balanceSatoshis
    usedAddresses,           \* #usedAddresses
    transactions,            \* #transactions
    utxos,                   \* #utxos
    isScanning,              \* #isScanning
    scanError,               \* #scanError, NullStr when null
    highestUsedReceiveIndex, \* #highestUsedReceiveIndex
    highestUsedChangeIndex,  \* #highestUsedChangeIndex
    \* ---- WalletStorageService ----
    stored,                  \* the PersistedWalletState of the wallet, or Null
    \* ---- asynchronous work in flight ----
    loginsPending,           \* login() calls suspended at `await loadState`
    scans,                   \* scanWallet() subscriptions that have not emitted, oldest first;
                             \* `abandoned` is history: a logout() happened since the start
    \* ---- WalletTransactionService (part_007) ----
    lockedUtxos,             \* #lockedUtxos: a set of "txHash:outputIndex" keys
    sends,                   \* broadcasts submitted and not failed, oldest first:
                             \* "inflight" until the response, then "accepted" (history)
    \* ---- SendDialog (send-dialog.ts) ----
    step,                    \* the step signal; "closed" when no dialog is open
    preview,                 \* the preview signal, or Null
    broadcastResult,         \* the broadcastResult signal, or Null
    sendTrace,               \* history: the stages the open dialog's send went through
    \* ---- the caller ----
    ret                      \* what the last call returned / the last observable emitted

branchVars == <<chainUsed, scanState, scanPc, branchResult, requestedBatches, seenUsed>>

scanVars == <<branchVars, walletScan>>

\* the signals a scan result is written to
walletData == <<balanceSatoshis, usedAddresses, transactions, utxos,
                highestUsedReceiveIndex, highestUsedChangeIndex>>

sessionVars == <<mnemonic, isLoggedIn, isScanning, scanError, walletData,
                 stored, loginsPending, scans>>

txVars == <<lockedUtxos, sends>>

dialogVars == <<step, preview, broadcastResult, sendTrace>>

appVars == <<sessionVars, txVars, dialogVars, ret>>

vars == <<scanVars, appVars>>

-----------------------------------------------------------------------------
(* Bounds of the model *)

\* the chain's used addresses are a prefix 0..p-1 with p <= MaxPrefix ...
MaxPrefix == 5
\* ... plus at most one further used index, which is <= MaxChainIndex
MaxChainIndex == 27
\* at most MaxFailed per-address balance requests of one batch fail
MaxFailed == 1
\* the wallet holds at most MaxUtxos unspent outputs when coins are selected
MaxUtxos == 3
\* scans (and logins about to scan) in flight at once
MaxScans == 2
\* broadcasts submitted and not failed
MaxSends == 2
\* input and output counts calculateFee is applied to
MaxFeeInputs == 6
MaxFeeOutputs == 3

-----------------------------------------------------------------------------
(* Generic helpers *)

NoResult == [none |-> TRUE]

\* null, for values that are objects and for values that are strings
Null == [null |-> TRUE]
NullStr == "<null>"

\* scanWallet has not been subscribed to
WalletIdle ==
    [pc |-> "idle", receive |-> NoResult, change |-> NoResult, requests |-> <<>>,
     transactions |-> NoResult, utxos |-> <<>>, result |-> NoResult]

\* no send dialog is open
DialogClosed ==
    /\ step = "closed"
    /\ preview = Null
    /\ broadcastResult = Null
    /\ sendTrace = <<>>

Max(a, b) == IF a >= b THEN a ELSE b

RECURSIVE SeqMaxFrom(_, _, _)
SeqMaxFrom(s, k, m) ==
    IF k > Len(s) THEN m ELSE SeqMaxFrom(s, k + 1, Max(m, s[k]))

\* Math.max(...xs) for a non-empty list
MathMax(s) == SeqMaxFrom(s, 2, s[1])

\* the elements of a finite set of integers in increasing order
RECURSIVE SortedSeq(_)
SortedSeq(S) ==
    IF S = {} THEN <<>>
    ELSE LET m == CHOOSE x \in S : \A y \in S : x <= y
         IN <<m>> \o SortedSeq(S \ {m})

\* the subsets of S with at most n elements
RECURSIVE SubsetsUpTo(_, _)
SubsetsUpTo(S, n) ==
    IF n = 0 THEN {{}}
    ELSE LET smaller == SubsetsUpTo(S, n - 1)
         IN smaller \cup {T \cup {x} : T \in smaller, x \in S}

-----------------------------------------------------------------------------
(* WalletScannerService: one branch *)

GAP_LIMIT == 20
BATCH_SIZE == 10

\* what the chain-data client holds for address index i
ChainTxCount(i) == IF i \in chainUsed THEN 1 ELSE 0
ChainBalance(i) == IF i \in chainUsed THEN 1000 * ((i % 3) + 1) ELSE 0

initialState ==
    [currentIndex |-> 0, consecutiveUnused |-> 0, usedAddresses |-> <<>>, done |-> FALSE]

\* deriveAddresses(mnemonic, startIndex, BATCH_SIZE, ...): sequential indices
deriveAddresses(startIndex, count) == [k \in 1..count |-> startIndex + k - 1]

\* #checkAddressesBalance, success of the multi-address request:
\* one {balance, txCount} per address, in the order asked
multiBalances(addresses) ==
    [k \in 1..Len(addresses) |->
        [balance |-> ChainBalance(addresses[k]), txCount |-> ChainTxCount(addresses[k])]]

\* mutant: one failed per-address request zeroes the whole batch
checkAddressesIndividually_allOrNothing(addresses, failed) ==
    [k \in 1..Len(addresses) |->
        IF failed # {}
        THEN [balance |-> 0, txCount |-> 0]
        ELSE [balance |-> ChainBalance(addresses[k]), txCount |-> ChainTxCount(addresses[k])]]

\* #checkAddressesIndividually: a failed per-address request yields {0, 0}
checkAddressesIndividually(addresses, failed) ==
    [k \in 1..Len(addresses) |->
        IF addresses[k] \in failed
        THEN [balance |-> 0, txCount |-> 0]
        ELSE [balance |-> ChainBalance(addresses[k]), txCount |-> ChainTxCount(addresses[k])]]

\* #scanBatch: zip derived addresses with their balances into AddressBalance
scanBatch(startIndex, balances) ==
    LET derived == deriveAddresses(startIndex, BATCH_SIZE)
    IN [k \in 1..Len(derived) |->
          [index |-> derived[k],
           balanceSatoshis |-> balances[k].balance,
           transactionCount |-> balances[k].txCount]]

\* the for-loop of #processBatchResult from element k on, cu and used being
\* the loop's locals
RECURSIVE processLoop(_, _, _, _, _)
processLoop(state, batchResults, k, cu, used) ==
    IF k > Len(batchResults)
    THEN [currentIndex |-> state.currentIndex + BATCH_SIZE,
          consecutiveUnused |-> cu,
          usedAddresses |-> used,
          done |-> FALSE]
    ELSE LET result == batchResults[k]
             isUsed == result.transactionCount > 0
             used2  == IF isUsed THEN Append(used, result) ELSE used
             cu2    == IF isUsed THEN 0 ELSE cu + 1
         IN IF cu2 >= GAP_LIMIT
            THEN [currentIndex |-> result.index + 1,
                  consecutiveUnused |-> cu2,
                  usedAddresses |-> used2,
                  done |-> TRUE]
            ELSE processLoop(state, batchResults, k + 1, cu2, used2)

\* mutant: the gap test is made only after the whole batch has been processed
RECURSIVE processWholeBatch(_, _, _, _, _)
processWholeBatch(state, batchResults, k, cu, used) ==
    IF k > Len(batchResults)
    THEN [currentIndex |-> state.currentIndex + BATCH_SIZE,
          consecutiveUnused |-> cu,
          usedAddresses |-> used,
          done |-> cu >= GAP_LIMIT]
    ELSE LET result == batchResults[k]
             isUsed == result.transactionCount > 0
         IN processWholeBatch(state, batchResults, k + 1,
                              IF isUsed THEN 0 ELSE cu + 1,
                              IF isUsed THEN Append(used, result) ELSE used)

processBatchResult_endOfBatch(state, batchResults) ==
    processWholeBatch(state, batchResults, 1, state.consecutiveUnused, state.usedAddresses)

\* mutant: the gap test is > instead of >=
RECURSIVE processLoopStrict(_, _, _, _, _)
processLoopStrict(state, batchResults, k, cu, used) ==
    IF k > Len(batchResults)
    THEN [currentIndex |-> state.currentIndex + BATCH_SIZE,
          consecutiveUnused |-> cu,
          usedAddresses |-> used,
          done |-> FALSE]
    ELSE LET result == batchResults[k]
             isUsed == result.transactionCount > 0
             used2  == IF isUsed THEN Append(used, result) ELSE used
             cu2    == IF isUsed THEN 0 ELSE cu + 1
         IN IF cu2 > GAP_LIMIT
            THEN [currentIndex |-> result.index + 1,
                  consecutiveUnused |-> cu2,
                  usedAddresses |-> used2,
                  done |-> TRUE]
            ELSE processLoopStrict(state, batchResults, k + 1, cu2, used2)

processBatchResult_strictGap(state, batchResults) ==
    processLoopStrict(state, batchResults, 1, state.consecutiveUnused, state.usedAddresses)

\* #processBatchResult
processBatchResult(state, batchResults) ==
    processLoop(state, batchResults, 1, state.consecutiveUnused, state.usedAddresses)

\* the final map() of #scanBranch
toBranchResult(finalState) ==
    [usedAddresses |-> finalState.usedAddresses,
     highestUsedIndex |->
        IF Len(finalState.usedAddresses) > 0
        THEN MathMax([k \in 1..Len(finalState.usedAddresses) |->
                        finalState.usedAddresses[k].index])
        ELSE -1]

\* mutant: expand() asks for the next batch whether or not the state is done
AfterBatch_requestsWhenDone(batchResults) ==
    \E next \in {processBatchResult(scanState, batchResults)} :
       /\ scanState' = next
       /\ seenUsed' = seenUsed \cup
             {batchResults[k].index : k \in
                 {j \in 1..Len(batchResults) : batchResults[j].transactionCount > 0}}
       /\ requestedBatches' = Append(requestedBatches, next.currentIndex)
       /\ IF next.done
          THEN /\ scanPc' = "done"
               /\ branchResult' = toBranchResult(next)
          ELSE /\ scanPc' = "multi"
               /\ UNCHANGED branchResult

\* The tail shared by both response handlers: map(processBatchResult), then
\* expand() either requests the next batch (same tick) or, the state being
\* done, takeWhile/reduce/map emit the branch result.
AfterBatch(batchResults) ==
    \E next \in {processBatchResult(scanState, batchResults)} :
       /\ scanState' = next
       /\ seenUsed' = seenUsed \cup
             {batchResults[k].index : k \in
                 {j \in 1..Len(batchResults) : batchResults[j].transactionCount > 0}}
       /\ IF next.done
          THEN /\ scanPc' = "done"
               /\ branchResult' = toBranchResult(next)
               /\ UNCHANGED requestedBatches
          ELSE /\ scanPc' = "multi"
               /\ requestedBatches' = Append(requestedBatches, next.currentIndex)
               /\ UNCHANGED branchResult

\* what #scanBatch emitted for the batch at scanState.currentIndex, with the
\* request that supplied the balances and the addresses whose request failed
Answered(request, failed, batchResults) ==
    [op |-> request, kind |-> "next", startIndex |-> scanState.currentIndex,
     failed |-> failed, batchResults |-> batchResults]

\* subscribe to #scanBranch: expand() on the initial state requests batch 0
StartScan ==
    /\ scanPc = "idle"
    /\ scanPc' = "multi"
    /\ requestedBatches' = Append(requestedBatches, scanState.currentIndex)
    /\ UNCHANGED <<chainUsed, scanState, branchResult, seenUsed, walletScan>>
    /\ ret' = Null
    /\ UNCHANGED <<sessionVars, txVars, dialogVars>>

\* getMultiAddressInfo(addresses, 0, 0) answers
MultiOk ==
    /\ scanPc = "multi"
    /\ \E batchResults \in {scanBatch(scanState.currentIndex,
              multiBalances(deriveAddresses(scanState.currentIndex, BATCH_SIZE)))} :
          /\ AfterBatch(batchResults)
          /\ ret' = Answered("getMultiAddressInfo", {}, batchResults)
    /\ UNCHANGED <<chainUsed, walletScan>>
    /\ UNCHANGED <<sessionVars, txVars, dialogVars>>

\* getMultiAddressInfo fails: catchError issues one getBalance per address
MultiFail ==
    /\ scanPc = "multi"
    /\ scanPc' = "individual"
    /\ UNCHANGED <<chainUsed, scanState, branchResult, requestedBatches, seenUsed, walletScan>>
    /\ ret' = [op |-> "getMultiAddressInfo", kind |-> "error",
               startIndex |-> scanState.currentIndex]
    /\ UNCHANGED <<sessionVars, txVars, dialogVars>>

\* forkJoin of the per-address requests completes; those in `failed` errored
IndividualDone ==
    /\ scanPc = "individual"
    /\ \E failed \in SubsetsUpTo(scanState.currentIndex ..
                                    scanState.currentIndex + BATCH_SIZE - 1, MaxFailed) :
          \E batchResults \in {scanBatch(scanState.currentIndex,
                 checkAddressesIndividually(
                     deriveAddresses(scanState.currentIndex, BATCH_SIZE), failed))} :
             /\ AfterBatch(batchResults)
             /\ ret' = Answered("getBalance", failed, batchResults)
    /\ UNCHANGED <<chainUsed, walletScan>>
    /\ UNCHANGED <<sessionVars, txVars, dialogVars>>

Chains ==
    {(0 .. p - 1) \cup S : p \in 0..MaxPrefix,
                           S \in {{}} \cup {{i} : i \in 0..MaxChainIndex}}

\* the session and the transaction service as constructed (part_009 17-27,
\* part_007 134)
AppConstructed ==
    /\ mnemonic = NullStr
    /\ isLoggedIn = FALSE
    /\ balanceSatoshis = 0
    /\ usedAddresses = <<>>
    /\ transactions = <<>>
    /\ utxos = <<>>
    /\ isScanning = FALSE
    /\ scanError = NullStr
    /\ highestUsedReceiveIndex = -1
    /\ highestUsedChangeIndex = -1
    /\ stored = Null
    /\ loginsPending = 0
    /\ scans = <<>>
    /\ lockedUtxos = {}
    /\ sends = <<>>
    /\ DialogClosed
    /\ ret = Null

\* no branch scan is running
ScanIdle ==
    /\ chainUsed = {}
    /\ scanState = initialState
    /\ scanPc = "idle"
    /\ branchResult = NoResult
    /\ requestedBatches = <<>>
    /\ seenUsed = {}
    /\ walletScan = WalletIdle

InitScan ==
    /\ chainUsed \in Chains
    /\ scanState = initialState
    /\ scanPc = "idle"
    /\ branchResult = NoResult
    /\ requestedBatches = <<>>
    /\ seenUsed = {}
    /\ walletScan = WalletIdle
    /\ AppConstructed

NextScan == StartScan \/ MultiOk \/ MultiFail \/ IndividualDone

SpecScan == InitScan /\ [][NextScan]_vars

\* every request of the chain-data client is eventually answered or fails
SpecScanFair ==
    /\ InitScan
    /\ [][NextScan]_vars
    /\ WF_vars(StartScan)
    /\ WF_vars(MultiOk \/ MultiFail)
    /\ WF_vars(IndividualDone)

-----------------------------------------------------------------------------
(* WalletSessionService: the read accessors the transaction service uses *)

\* a UTXO is [txHash, outputIndex, value, confirmations]; scriptPubKey,
\* address and derivationPath are carried along unread by the code modelled
UTXO(txHash, outputIndex, value, confirmations) ==
    [txHash |-> txHash, outputIndex |-> outputIndex, value |-> value,
     confirmations |-> confirmations]

\* BitcoinService.deriveAddressAtIndex on mainnet: the address is determined
\* by (branch, index)
deriveAddressAtIndex(index, branch) == [branch |-> branch, index |-> index]

\* WalletSessionService.getNextChangeAddress
getNextChangeAddress ==
    IF mnemonic = NullStr THEN Null
    ELSE deriveAddressAtIndex(highestUsedChangeIndex + 1, "change")

\* WalletSessionService.getSpendableUtxos
sessionSpendableUtxos == SelectSeq(utxos, LAMBDA u : u.confirmations > 0)

-----------------------------------------------------------------------------
(* WalletTransactionService: fee engine and coin selection *)

P2WPKH_INPUT_SIZE == 68
P2WPKH_OUTPUT_SIZE == 31
TX_OVERHEAD == 11
DUST_THRESHOLD == 546

\* a fee rate in sat/vByte is a JavaScript number; it is modelled as the
\* rational num/den (den > 0)
Rate(num, den) == [num |-> num, den |-> den]

\* Math.ceil(x / d) for d > 0
CeilDiv(x, d) == -((-x) \div d)

\* reduce((sum, u) => sum + u.value, 0)
RECURSIVE SumValues(_)
SumValues(us) == IF us = <<>> THEN 0 ELSE Head(us).value + SumValues(Tail(us))

\* #getUtxoKey: `${txHash}:${outputIndex}`
getUtxoKey(utxo) == utxo.txHash \o ":" \o ToString(utxo.outputIndex)

\* mutant: the locked set is not consulted
getSpendableUtxos_ignoreLocks == sessionSpendableUtxos

\* mutant: unconfirmed outputs are not filtered out
getSpendableUtxos_unconfirmed ==
    SelectSeq(utxos, LAMBDA u : getUtxoKey(u) \notin lockedUtxos)

\* WalletTransactionService.getSpendableUtxos
getSpendableUtxos ==
    SelectSeq(sessionSpendableUtxos, LAMBDA u : getUtxoKey(u) \notin lockedUtxos)

\* mutant: the outputs' size is taken off instead of added
calculateFee_outputsSubtracted(numInputs, numOutputs, feeRate) ==
    LET txSize == TX_OVERHEAD + numInputs * P2WPKH_INPUT_SIZE
                              - numOutputs * P2WPKH_OUTPUT_SIZE
    IN CeilDiv(txSize * feeRate.num, feeRate.den)

\* WalletTransactionService.estimateTxSize
estimateTxSize(numInputs, numOutputs) ==
    TX_OVERHEAD + numInputs * P2WPKH_INPUT_SIZE + numOutputs * P2WPKH_OUTPUT_SIZE

\* WalletTransactionService.calculateFee
calculateFee(numInputs, numOutputs, feeRate) ==
    LET txSize == TX_OVERHEAD + numInputs * P2WPKH_INPUT_SIZE
                              + numOutputs * P2WPKH_OUTPUT_SIZE
    IN CeilDiv(txSize * feeRate.num, feeRate.den)

\* effectiveValue = value - P2WPKH_INPUT_SIZE * feeRate, times feeRate.den
effectiveValue(utxo, feeRate) ==
    utxo.value * feeRate.den - P2WPKH_INPUT_SIZE * feeRate.num

\* filter((u) => u.effectiveValue > 0)
isEconomical(utxo, feeRate) == effectiveValue(utxo, feeRate) > 0

\* sort((a, b) => b.effectiveValue - a.effectiveValue): a stable sort, largest
\* effective value first; x is inserted behind every element that is >= x
\* mutant: the comparison is reversed, smallest effective value first
RECURSIVE insertDescending_ascending(_, _, _)
insertDescending_ascending(sorted, x, feeRate) ==
    IF sorted = <<>> THEN <<x>>
    ELSE IF effectiveValue(Head(sorted), feeRate) <= effectiveValue(x, feeRate)
         THEN <<Head(sorted)>> \o insertDescending_ascending(Tail(sorted), x, feeRate)
         ELSE <<x>> \o sorted

RECURSIVE insertDescending(_, _, _)
insertDescending(sorted, x, feeRate) ==
    IF sorted = <<>> THEN <<x>>
    ELSE IF effectiveValue(Head(sorted), feeRate) >= effectiveValue(x, feeRate)
         THEN <<Head(sorted)>> \o insertDescending(Tail(sorted), x, feeRate)
         ELSE <<x>> \o sorted

RECURSIVE sortDescending(_, _, _, _)
sortDescending(list, k, sorted, feeRate) ==
    IF k > Len(list) THEN sorted
    ELSE sortDescending(list, k + 1, insertDescending(sorted, list[k], feeRate), feeRate)

\* lines 265-273: map / filter / sort
utxosWithEffectiveValue(feeRate) ==
    sortDescending(SelectSeq(getSpendableUtxos, LAMBDA u : isEconomical(u, feeRate)),
                   1, <<>>, feeRate)

\* mutant: change is emitted whenever the remainder is positive
selectionStep_anyChange(selectedUtxos, totalInputValue, amountSatoshis, feeRate) ==
    LET feeWithChange == calculateFee(Len(selectedUtxos), 2, feeRate)
        feeWithoutChange == calculateFee(Len(selectedUtxos), 1, feeRate)
        remainingWithChange == totalInputValue - amountSatoshis - feeWithChange
        remainingWithoutChange == totalInputValue - amountSatoshis - feeWithoutChange
    IN IF remainingWithChange > 0
       THEN [selectedUtxos |-> selectedUtxos, totalInputValue |-> totalInputValue,
             fee |-> feeWithChange, changeAmount |-> remainingWithChange,
             changeAddress |-> getNextChangeAddress, dustAddedToFee |-> 0]
       ELSE IF remainingWithoutChange >= 0
       THEN [selectedUtxos |-> selectedUtxos, totalInputValue |-> totalInputValue,
             fee |-> totalInputValue - amountSatoshis, changeAmount |-> 0,
             changeAddress |-> Null,
             dustAddedToFee |-> IF remainingWithoutChange > 0
                                THEN remainingWithoutChange ELSE 0]
       ELSE Null

\* mutant: without change the fee stays the computed one and the dust is lost
selectionStep_dustVanishes(selectedUtxos, totalInputValue, amountSatoshis, feeRate) ==
    LET feeWithChange == calculateFee(Len(selectedUtxos), 2, feeRate)
        feeWithoutChange == calculateFee(Len(selectedUtxos), 1, feeRate)
        remainingWithChange == totalInputValue - amountSatoshis - feeWithChange
        remainingWithoutChange == totalInputValue - amountSatoshis - feeWithoutChange
    IN IF remainingWithChange >= DUST_THRESHOLD
       THEN [selectedUtxos |-> selectedUtxos, totalInputValue |-> totalInputValue,
             fee |-> feeWithChange, changeAmount |-> remainingWithChange,
             changeAddress |-> getNextChangeAddress, dustAddedToFee |-> 0]
       ELSE IF remainingWithoutChange >= 0
       THEN [selectedUtxos |-> selectedUtxos, totalInputValue |-> totalInputValue,
             fee |-> feeWithoutChange, changeAmount |-> 0,
             changeAddress |-> Null,
             dustAddedToFee |-> IF remainingWithoutChange > 0
                                THEN remainingWithoutChange ELSE 0]
       ELSE Null

\* mutant: a selection with change pays the fee of one output
selectionStep_changeAtOneOutputFee(selectedUtxos, totalInputValue, amountSatoshis, feeRate) ==
    LET feeWithChange == calculateFee(Len(selectedUtxos), 2, feeRate)
        feeWithoutChange == calculateFee(Len(selectedUtxos), 1, feeRate)
        remainingWithChange == totalInputValue - amountSatoshis - feeWithChange
        remainingWithoutChange == totalInputValue - amountSatoshis - feeWithoutChange
    IN IF remainingWithChange >= DUST_THRESHOLD
       THEN [selectedUtxos |-> selectedUtxos, totalInputValue |-> totalInputValue,
             fee |-> feeWithoutChange, changeAmount |-> remainingWithoutChange,
             changeAddress |-> getNextChangeAddress, dustAddedToFee |-> 0]
       ELSE IF remainingWithoutChange >= 0
       THEN [selectedUtxos |-> selectedUtxos, totalInputValue |-> totalInputValue,
             fee |-> totalInputValue - amountSatoshis, changeAmount |-> 0,
             changeAddress |-> Null,
             dustAddedToFee |-> IF remainingWithoutChange > 0
                                THEN remainingWithoutChange ELSE 0]
       ELSE Null

\* lines 286-317: the body of the selection loop after a UTXO was added;
\* Null stands for falling through to the next iteration
selectionStep(selectedUtxos, totalInputValue, amountSatoshis, feeRate) ==
    LET feeWithChange == calculateFee(Len(selectedUtxos), 2, feeRate)
        feeWithoutChange == calculateFee(Len(selectedUtxos), 1, feeRate)
        remainingWithChange == totalInputValue - amountSatoshis - feeWithChange
        remainingWithoutChange == totalInputValue - amountSatoshis - feeWithoutChange
    IN IF remainingWithChange >= DUST_THRESHOLD
       THEN [selectedUtxos |-> selectedUtxos, totalInputValue |-> totalInputValue,
             fee |-> feeWithChange, changeAmount |-> remainingWithChange,
             changeAddress |-> getNextChangeAddress, dustAddedToFee |-> 0]
       ELSE IF remainingWithoutChange >= 0
       THEN [selectedUtxos |-> selectedUtxos, totalInputValue |-> totalInputValue,
             fee |-> totalInputValue - amountSatoshis, changeAmount |-> 0,
             changeAddress |-> Null,
             dustAddedToFee |-> IF remainingWithoutChange > 0
                                THEN remainingWithoutChange ELSE 0]
       ELSE Null

\* mutant: when the candidates are exhausted, everything accumulated is
\* returned as a selection without change
RECURSIVE selectLoop_spendsAll(_, _, _, _, _, _)
selectLoop_spendsAll(candidates, k, selectedUtxos, totalInputValue, amountSatoshis, feeRate) ==
    IF k > Len(candidates)
    THEN [selectedUtxos |-> selectedUtxos, totalInputValue |-> totalInputValue,
          fee |-> totalInputValue - amountSatoshis, changeAmount |-> 0,
          changeAddress |-> Null, dustAddedToFee |-> 0]
    ELSE LET selected2 == Append(selectedUtxos, candidates[k])
             total2 == totalInputValue + candidates[k].value
             outcome == selectionStep(selected2, total2, amountSatoshis, feeRate)
         IN IF outcome # Null THEN outcome
            ELSE selectLoop_spendsAll(candidates, k + 1, selected2, total2,
                                      amountSatoshis, feeRate)

\* lines 279-321: the selection loop from the k-th candidate on
RECURSIVE selectLoop(_, _, _, _, _, _)
selectLoop(candidates, k, selectedUtxos, totalInputValue, amountSatoshis, feeRate) ==
    IF k > Len(candidates) THEN Null
    ELSE LET selected2 == Append(selectedUtxos, candidates[k])
             total2 == totalInputValue + candidates[k].value
             outcome == selectionStep(selected2, total2, amountSatoshis, feeRate)
         IN IF outcome # Null THEN outcome
            ELSE selectLoop(candidates, k + 1, selected2, total2, amountSatoshis, feeRate)

\* WalletTransactionService.selectCoins
selectCoins(amountSatoshis, feeRate) ==
    IF Len(getSpendableUtxos) = 0 THEN Null
    ELSE IF Len(utxosWithEffectiveValue(feeRate)) = 0 THEN Null
    ELSE selectLoop(utxosWithEffectiveValue(feeRate), 1, <<>>, 0, amountSatoshis, feeRate)

-----------------------------------------------------------------------------
(* Coin selection applied to drawn wallets: SpecSelect *)

\* the inputs drawn
UtxoValues == {600, 1000, 2000, 5000}
Amounts == {546, 1500, 6000}
FeeRates == {Rate(1, 1), Rate(3, 2), Rate(10, 1)}
TxHashes == <<"a", "b", "c", "d">>

\* the k-th output of the drawn wallet: outputs 0 and 1 of successive transactions
DrawnUtxo(k, value, confirmations) ==
    UTXO(TxHashes[(k + 1) \div 2], (k + 1) % 2, value, confirmations)

\* every output is confirmed and free, unconfirmed, or confirmed and locked
DrawnWallets ==
    UNION {[1..n -> UtxoValues \X {"free", "unconfirmed", "locked"}] : n \in 0..MaxUtxos}

InitSelect ==
    /\ \E w \in DrawnWallets :
          /\ utxos = [k \in DOMAIN w |->
                        DrawnUtxo(k, w[k][1], IF w[k][2] = "unconfirmed" THEN 0 ELSE 1)]
          /\ lockedUtxos = {getUtxoKey(DrawnUtxo(k, w[k][1], 1)) :
                               k \in {j \in DOMAIN w : w[j][2] = "locked"}}
    /\ mnemonic = "m1"
    /\ isLoggedIn = TRUE
    /\ balanceSatoshis = 0
    /\ usedAddresses = <<>>
    /\ transactions = <<>>
    /\ isScanning = FALSE
    /\ scanError = NullStr
    /\ highestUsedReceiveIndex = -1
    /\ highestUsedChangeIndex = -1
    /\ stored = Null
    /\ loginsPending = 0
    /\ scans = <<>>
    /\ sends = <<>>
    /\ DialogClosed
    /\ ret = Null
    /\ ScanIdle

\* a caller invokes selectCoins(amountSatoshis, feeRate)
\* mutant: the difference is returned without Math.max(0, ...)
getMaxSendableAmount_unclamped(feeRate) ==
    LET spendableUtxos == getSpendableUtxos
    IN IF Len(spendableUtxos) = 0 THEN 0
       ELSE SumValues(spendableUtxos) - calculateFee(Len(spendableUtxos), 1, feeRate)

\* mutant: the fee is not taken off
getMaxSendableAmount_withoutFee(feeRate) == SumValues(getSpendableUtxos)

\* WalletTransactionService.getMaxSendableAmount
getMaxSendableAmount(feeRate) ==
    LET spendableUtxos == getSpendableUtxos
    IN IF Len(spendableUtxos) = 0 THEN 0
       ELSE LET totalValue == SumValues(spendableUtxos)
                fee == calculateFee(Len(spendableUtxos), 1, feeRate)
            IN Max(0, totalValue - fee)

\* getMaxSendableAmount(feeRate) called
GetMaxSendableAmountCall ==
    /\ \E feeRate \in FeeRates :
          ret' = [op |-> "getMaxSendableAmount", feeRate |-> feeRate,
                  result |-> getMaxSendableAmount(feeRate)]
    /\ UNCHANGED <<sessionVars, txVars, scanVars, dialogVars>>

\* SendDialog.setMaxAmount, then the selection for the amount it filled in
SelectMaxCall ==
    /\ \E feeRate \in FeeRates :
          \E maxSendable \in {getMaxSendableAmount(feeRate)} :
             /\ maxSendable > 0
             /\ ret' = [op |-> "selectCoins", amountSatoshis |-> maxSendable,
                        feeRate |-> feeRate, result |-> selectCoins(maxSendable, feeRate)]
    /\ UNCHANGED <<sessionVars, txVars, scanVars, dialogVars>>

SelectCoinsCall ==
    /\ \E amountSatoshis \in Amounts, feeRate \in FeeRates :
          ret' = [op |-> "selectCoins", amountSatoshis |-> amountSatoshis,
                  feeRate |-> feeRate, result |-> selectCoins(amountSatoshis, feeRate)]
    /\ UNCHANGED <<sessionVars, txVars, scanVars, dialogVars>>

NextSelect == SelectCoinsCall \/ GetMaxSendableAmountCall \/ SelectMaxCall

SpecSelect == InitSelect /\ [][NextSelect]_vars

-----------------------------------------------------------------------------
(* WalletTransactionService.validateSend applied to drawn inputs: SpecValidate *)

MIN_SEND_AMOUNT == 546

\* a JavaScript number passed as amountSatoshis: finite (v), NaN or Infinity
Finite(v) == [kind |-> "finite", v |-> v]
NaN == [kind |-> "NaN", v |-> 0]
Infinity == [kind |-> "Infinity", v |-> 0]

\* BitcoinService.validateAddress: toOutputScript decodes the address or throws
ValidAddresses == {"bc1qtarget"}
validateAddress(address) == address \in ValidAddresses

\* a failed SendValidation (the message is a function of the tag)
Invalid(error) == [valid |-> FALSE, error |-> error]

\* mutant: the fee is left out of the last check
validateSend_withoutFee(address, amountSatoshis, feeRate) ==
    IF address = "" \/ ~validateAddress(address) THEN Invalid("INVALID_ADDRESS")
    ELSE IF \/ amountSatoshis.kind = "NaN"
            \/ amountSatoshis.kind = "finite" /\ amountSatoshis.v <= 0
            \/ amountSatoshis.kind # "finite"
         THEN Invalid("INVALID_AMOUNT")
    ELSE IF amountSatoshis.v < MIN_SEND_AMOUNT THEN Invalid("AMOUNT_TOO_SMALL")
    ELSE IF mnemonic = NullStr THEN Invalid("NO_MNEMONIC")
    ELSE IF Len(getSpendableUtxos) = 0 THEN Invalid("NO_UTXOS")
    ELSE IF amountSatoshis.v > SumValues(getSpendableUtxos)
         THEN Invalid("INSUFFICIENT_FUNDS")
    ELSE [valid |-> TRUE]

\* mutant: the fee checked is that of a transaction with a change output
validateSend_twoOutputFee(address, amountSatoshis, feeRate) ==
    IF address = "" \/ ~validateAddress(address) THEN Invalid("INVALID_ADDRESS")
    ELSE IF \/ amountSatoshis.kind = "NaN"
            \/ amountSatoshis.kind = "finite" /\ amountSatoshis.v <= 0
            \/ amountSatoshis.kind # "finite"
         THEN Invalid("INVALID_AMOUNT")
    ELSE IF amountSatoshis.v < MIN_SEND_AMOUNT THEN Invalid("AMOUNT_TOO_SMALL")
    ELSE IF mnemonic = NullStr THEN Invalid("NO_MNEMONIC")
    ELSE IF Len(getSpendableUtxos) = 0 THEN Invalid("NO_UTXOS")
    ELSE LET totalSpendable == SumValues(getSpendableUtxos)
             minFee == calculateFee(1, 2, feeRate)
         IN IF amountSatoshis.v > totalSpendable THEN Invalid("INSUFFICIENT_FUNDS")
            ELSE IF amountSatoshis.v + minFee > totalSpendable
                 THEN Invalid("INSUFFICIENT_FOR_FEE")
            ELSE [valid |-> TRUE]

\* WalletTransactionService.validateSend
validateSend(address, amountSatoshis, feeRate) ==
    IF address = "" \/ ~validateAddress(address) THEN Invalid("INVALID_ADDRESS")
    ELSE IF \/ amountSatoshis.kind = "NaN"                            \* !amountSatoshis
            \/ amountSatoshis.kind = "finite" /\ amountSatoshis.v <= 0  \* !0, <= 0
            \/ amountSatoshis.kind # "finite"                         \* !Number.isFinite
         THEN Invalid("INVALID_AMOUNT")
    ELSE IF amountSatoshis.v < MIN_SEND_AMOUNT THEN Invalid("AMOUNT_TOO_SMALL")
    ELSE IF mnemonic = NullStr THEN Invalid("NO_MNEMONIC")
    ELSE IF Len(getSpendableUtxos) = 0 THEN Invalid("NO_UTXOS")
    ELSE LET totalSpendable == SumValues(getSpendableUtxos)
             minFee == calculateFee(1, 1, feeRate)
         IN IF amountSatoshis.v > totalSpendable THEN Invalid("INSUFFICIENT_FUNDS")
            ELSE IF amountSatoshis.v + minFee > totalSpendable
                 THEN Invalid("INSUFFICIENT_FOR_FEE")
            ELSE [valid |-> TRUE]

\* the inputs drawn
ValidateAddresses == {"", "not-an-address", "bc1qtarget"}
ValidateAmounts == {NaN, Infinity, Finite(-5), Finite(0), Finite(100), Finite(546),
                    Finite(1880), Finite(2450), Finite(6000)}
ValidateFeeRates == {Rate(1, 1), Rate(3, 2)}
ValidateValues == {600, 2000}

\* wallets of at most MaxUtxos outputs, each free, unconfirmed or locked
ValidateWallets ==
    UNION {[1..n -> ValidateValues \X {"free", "unconfirmed", "locked"}] : n \in 0..MaxUtxos}

InitValidate ==
    /\ \E w \in ValidateWallets :
          /\ utxos = [k \in DOMAIN w |->
                        DrawnUtxo(k, w[k][1], IF w[k][2] = "unconfirmed" THEN 0 ELSE 1)]
          /\ lockedUtxos = {getUtxoKey(DrawnUtxo(k, w[k][1], 1)) :
                               k \in {j \in DOMAIN w : w[j][2] = "locked"}}
    /\ mnemonic \in {NullStr, "m1"}
    /\ isLoggedIn = (mnemonic # NullStr)
    /\ balanceSatoshis = 0
    /\ usedAddresses = <<>>
    /\ transactions = <<>>
    /\ isScanning = FALSE
    /\ scanError = NullStr
    /\ highestUsedReceiveIndex = -1
    /\ highestUsedChangeIndex = -1
    /\ stored = Null
    /\ loginsPending = 0
    /\ scans = <<>>
    /\ sends = <<>>
    /\ DialogClosed
    /\ ret = Null
    /\ ScanIdle

\* a caller invokes validateSend(address, amountSatoshis, feeRate)
ValidateSendCall ==
    /\ \E address \in ValidateAddresses, amountSatoshis \in ValidateAmounts,
          feeRate \in ValidateFeeRates :
          ret' = [op |-> "validateSend", kind |-> "return", address |-> address,
                  amountSatoshis |-> amountSatoshis, feeRate |-> feeRate,
                  result |-> validateSend(address, amountSatoshis, feeRate)]
    /\ UNCHANGED <<sessionVars, txVars, scanVars, dialogVars>>

NextValidate == ValidateSendCall

SpecValidate == InitValidate /\ [][NextValidate]_vars

-----------------------------------------------------------------------------
(* WalletSessionService: login / logout / refreshBalance *)

\* interfaces: AddressBalance (address stands for its derivation place)
AddressBalance(index, branch, balance) ==
    [index |-> index, branch |-> branch, balanceSatoshis |-> balance]

RECURSIVE SumBalances(_)
\* usedAddresses.reduce((sum, addr) => sum + addr.balanceSatoshis, 0)
SumBalances(addrs) ==
    IF addrs = <<>> THEN 0
    ELSE addrs[1].balanceSatoshis + SumBalances(Tail(addrs))

RECURSIVE highestIndex(_, _)
\* scanWallet: the branch's highestUsedIndex, -1 when none
highestIndex(addrs, branch) ==
    IF addrs = <<>> THEN -1
    ELSE Max(IF addrs[1].branch = branch THEN addrs[1].index ELSE -1,
             highestIndex(Tail(addrs), branch))

\* scanWallet: the result emitted when no address of either branch is used
ZeroResult ==
    [usedAddresses |-> <<>>, transactions |-> <<>>, utxos |-> <<>>,
     totalBalanceSatoshis |-> 0,
     highestUsedReceiveIndex |-> -1, highestUsedChangeIndex |-> -1]

\* scanWallet: the result assembled from the used addresses and the fetches
WalletScanResult(addrs, txs, ux) ==
    [usedAddresses |-> addrs, transactions |-> txs, utxos |-> ux,
     totalBalanceSatoshis |-> SumBalances(addrs),
     highestUsedReceiveIndex |-> highestIndex(addrs, "receive"),
     highestUsedChangeIndex |-> highestIndex(addrs, "change")]

\* The outputs the chain can report for the wallet.
Ua == UTXO("a", 0, 2000, 3)
Ub == UTXO("a", 1, 1000, 1)
Uc == UTXO("b", 0, 5000, 0)

\* What a scan of the wallet can emit: the provider's view at the time of
\* the scan (empty, two confirmed outputs, a third output still unconfirmed
\* on a change address).
ScanResults ==
    { ZeroResult,
      WalletScanResult(<<AddressBalance(0, "receive", 3000)>>,
                       <<"a">>, <<Ua, Ub>>),
      WalletScanResult(<<AddressBalance(0, "receive", 3000),
                         AddressBalance(0, "change", 5000)>>,
                       <<"a", "b">>, <<Ua, Ub, Uc>>) }

\* constructor effect: saveState when a mnemonic is set and an address known
autosave(mn, addrs, txs, ux, hr, hc) ==
    IF mn # NullStr /\ Len(addrs) > 0
    THEN [highestUsedReceiveIndex |-> hr, highestUsedChangeIndex |-> hc,
          usedAddresses |-> addrs, utxos |-> ux, transactions |-> txs]
    ELSE stored

\* the effect, run on the signals an action leaves behind
AutosaveEffect ==
    stored' = autosave(mnemonic', usedAddresses', transactions', utxos',
                       highestUsedReceiveIndex', highestUsedChangeIndex')

\* room for one more scan (or login that will start one)
CanStartScan == loginsPending + Len(scans) < MaxScans

\* scanWallet(...).subscribe: a scan is in flight
subscribeScan(origin) == Append(scans, [origin |-> origin, abandoned |-> FALSE])

\* login(mnemonic), up to `await loadState`
login ==
    /\ CanStartScan
    /\ mnemonic' = "m1"
    /\ isLoggedIn' = TRUE
    /\ isScanning' = TRUE
    /\ scanError' = NullStr
    /\ loginsPending' = loginsPending + 1
    /\ UNCHANGED <<walletData, scans>>
    /\ AutosaveEffect
    /\ ret' = Null
    /\ UNCHANGED <<txVars, scanVars, dialogVars>>

\* login(mnemonic), from the return of loadState: the cached state, if one
\* was loaded, is shown, then the scan is started
loginAfterLoadState ==
    /\ loginsPending > 0
    /\ loginsPending' = loginsPending - 1
    /\ \E cachedState \in {Null, stored} :
          IF cachedState # Null
          THEN /\ usedAddresses' = cachedState.usedAddresses
               /\ transactions' = cachedState.transactions
               /\ utxos' = cachedState.utxos
               /\ highestUsedReceiveIndex' = cachedState.highestUsedReceiveIndex
               /\ highestUsedChangeIndex' = cachedState.highestUsedChangeIndex
               /\ balanceSatoshis' = SumBalances(cachedState.usedAddresses)
          ELSE UNCHANGED walletData
    /\ scans' = subscribeScan("login")
    /\ UNCHANGED <<mnemonic, isLoggedIn, isScanning, scanError>>
    /\ AutosaveEffect
    /\ ret' = Null
    /\ UNCHANGED <<txVars, scanVars, dialogVars>>

\* logout(): every signal is reset; subscriptions are left alone
logout ==
    /\ mnemonic' = NullStr
    /\ isLoggedIn' = FALSE
    /\ balanceSatoshis' = 0
    /\ usedAddresses' = <<>>
    /\ transactions' = <<>>
    /\ utxos' = <<>>
    /\ isScanning' = FALSE
    /\ scanError' = NullStr
    /\ highestUsedReceiveIndex' = -1
    /\ highestUsedChangeIndex' = -1
    /\ scans' = [i \in DOMAIN scans |-> [scans[i] EXCEPT !.abandoned = TRUE]]
    /\ UNCHANGED loginsPending
    /\ AutosaveEffect
    /\ ret' = Null
    /\ UNCHANGED <<txVars, scanVars, dialogVars>>

\* refreshBalance(): the state it leaves, given that a mnemonic is set
refreshBalanceStarts ==
    /\ isScanning' = TRUE
    /\ scanError' = NullStr
    /\ scans' = subscribeScan("refresh")

\* refreshBalance() called by the dashboard
refreshBalance ==
    /\ mnemonic # NullStr
    /\ CanStartScan
    /\ refreshBalanceStarts
    /\ UNCHANGED <<mnemonic, isLoggedIn, walletData, stored, loginsPending>>
    /\ ret' = Null
    /\ UNCHANGED <<txVars, scanVars, dialogVars>>

\* the sequence without its i-th element
RemoveAt(s, i) == [k \in 1..(Len(s) - 1) |-> IF k < i THEN s[k] ELSE s[k + 1]]

\* subscribe.next of login and refreshBalance: the result is written
scanNext(i) ==
    /\ i \in DOMAIN scans
    /\ \E result \in ScanResults :
          /\ balanceSatoshis' = result.totalBalanceSatoshis
          /\ usedAddresses' = result.usedAddresses
          /\ transactions' = result.transactions
          /\ utxos' = result.utxos
          /\ highestUsedReceiveIndex' = result.highestUsedReceiveIndex
          /\ highestUsedChangeIndex' = result.highestUsedChangeIndex
          /\ ret' = [op |-> "scanNext", kind |-> "next", index |-> i,
                     inFlight |-> Len(scans), abandoned |-> scans[i].abandoned,
                     result |-> result]
    /\ isScanning' = FALSE
    /\ scans' = RemoveAt(scans, i)
    /\ UNCHANGED <<mnemonic, isLoggedIn, scanError, loginsPending>>
    /\ AutosaveEffect
    /\ UNCHANGED <<txVars, scanVars, dialogVars>>

\* subscribe.error of login and refreshBalance
scanFailed(i) ==
    /\ i \in DOMAIN scans
    /\ scanError' = IF scans[i].origin = "login" THEN "Failed to scan wallet"
                    ELSE "Failed to refresh balance"
    /\ isScanning' = FALSE
    /\ scans' = RemoveAt(scans, i)
    /\ UNCHANGED <<mnemonic, isLoggedIn, walletData, stored, loginsPending>>
    /\ ret' = Null
    /\ UNCHANGED <<txVars, scanVars, dialogVars>>

-----------------------------------------------------------------------------
(* WalletTransactionService: locks, sign, broadcast, send *)

\* the keys of a list of UTXOs
UtxoKeys(list) == {getUtxoKey(list[k]) : k \in DOMAIN list}

\* mutant: the new set is not built from the old one
lockUtxos_forgets(list) == UtxoKeys(list)

\* lockUtxos(utxos): the locked set it leaves
lockUtxos(list) == lockedUtxos \cup UtxoKeys(list)

\* mutant: every lock is dropped
unlockUtxos_all(list) == {}

\* mutant: nothing is unlocked
unlockUtxos_none(list) == lockedUtxos

\* unlockUtxos(utxos): the locked set it leaves
unlockUtxos(list) == lockedUtxos \ UtxoKeys(list)

\* clearLockedUtxos(): the locked set it leaves
clearLockedUtxos == {}

\* what the broadcast request can fail with: an HTTP error whose body is the
\* provider's message, an HTTP error without body, a bare failure
BroadcastErrors ==
    { [error |-> "bad-txns-inputs-missingorspent", message |-> "Http failure response"],
      [error |-> NullStr, message |-> "Http failure response"],
      [error |-> NullStr, message |-> NullStr] }

\* error?.error || error?.message || 'Broadcast failed'
broadcastErrorText(error) ==
    IF error.error # NullStr THEN error.error
    ELSE IF error.message # NullStr THEN error.message
    ELSE "Broadcast failed"

\* signTransaction: the message of the error it throws, NullStr when it
\* returns the hex; derivationFails is the outcome of ecc.pointFromScalar
signTransaction(prepared, derivationFails) ==
    IF mnemonic = NullStr THEN "No mnemonic available"
    ELSE IF derivationFails /\ Len(prepared.coinSelection.selectedUtxos) > 0
         THEN "Failed to derive public key"
         ELSE NullStr

\* prepareTransaction
prepareTransaction(amountSatoshis, feeRate) ==
    LET coinSelection == selectCoins(amountSatoshis, feeRate)
    IN IF coinSelection = Null THEN Null
       ELSE LET outputCount == IF coinSelection.changeAmount > 0 THEN 2 ELSE 1
            IN [coinSelection |-> coinSelection, amountSatoshis |-> amountSatoshis,
                feeRate |-> feeRate,
                estimatedSize |-> estimateTxSize(Len(coinSelection.selectedUtxos),
                                                 outputCount)]

\* a BroadcastResult delivered to the subscriber as a value
Emitted(op, result, usedUtxos) ==
    [op |-> op, kind |-> "next", result |-> result, usedUtxos |-> usedUtxos]

\* the amounts and fee rates the dialog sends with
SendAmounts == {546, 2500}
SendFeeRates == {Rate(1, 1)}

\* mutant: the error thrown by signTransaction escapes to the subscriber
signingFailed_rethrows(thrown) ==
    [op |-> "sendTransaction", kind |-> "error", result |-> [message |-> thrown],
     usedUtxos |-> <<>>]

\* sendTransaction, the catch block: the thrown error becomes a failure value
signingFailed(thrown) ==
    Emitted("sendTransaction", [success |-> FALSE, error |-> thrown], <<>>)

\* what the caller passed, kept with what the call returned
CalledWith(amountSatoshis, feeRate, derivationFails) ==
    [amountSatoshis |-> amountSatoshis, feeRate |-> feeRate,
     derivationFails |-> derivationFails]

\* mutant: the selected outputs are locked before signing
sendTransactionWith_locksBeforeSigning(amountSatoshis, feeRate, derivationFails) ==
    \E prepared \in {prepareTransaction(amountSatoshis, feeRate)},
       args \in {CalledWith(amountSatoshis, feeRate, derivationFails)} :
      IF prepared = Null
      THEN /\ ret' = Emitted("sendTransaction",
                             [success |-> FALSE, error |-> "Insufficient funds"], <<>>)
                      @@ args
           /\ UNCHANGED <<lockedUtxos, sends>>
      ELSE \E thrown \in {signTransaction(prepared, derivationFails)} :
             /\ lockedUtxos' = lockUtxos(prepared.coinSelection.selectedUtxos)
             /\ IF thrown # NullStr
                THEN /\ ret' = signingFailed(thrown) @@ args
                     /\ UNCHANGED sends
                ELSE /\ Len(sends) < MaxSends
                     /\ sends' = Append(sends,
                            [usedUtxos |-> prepared.coinSelection.selectedUtxos,
                             status |-> "inflight"])
                     /\ ret' = [op |-> "sendTransaction", kind |-> "pending",
                                coinSelection |-> prepared.coinSelection] @@ args

\* sendTransaction(target, amountSatoshis, feeRate) and the subscription to
\* what it returns: prepare, sign, lock and submit the broadcast
sendTransactionWith(amountSatoshis, feeRate, derivationFails) ==
    \E prepared \in {prepareTransaction(amountSatoshis, feeRate)},
       args \in {CalledWith(amountSatoshis, feeRate, derivationFails)} :
      IF prepared = Null
      THEN /\ ret' = Emitted("sendTransaction",
                             [success |-> FALSE, error |-> "Insufficient funds"], <<>>)
                      @@ args
           /\ UNCHANGED <<lockedUtxos, sends>>
      ELSE \E thrown \in {signTransaction(prepared, derivationFails)} :
             IF thrown # NullStr
             THEN /\ ret' = signingFailed(thrown) @@ args
                  /\ UNCHANGED <<lockedUtxos, sends>>
             ELSE /\ Len(sends) < MaxSends
                  /\ lockedUtxos' = lockUtxos(prepared.coinSelection.selectedUtxos)
                  /\ sends' = Append(sends,
                         [usedUtxos |-> prepared.coinSelection.selectedUtxos,
                          status |-> "inflight"])
                  /\ ret' = [op |-> "sendTransaction", kind |-> "pending",
                             coinSelection |-> prepared.coinSelection] @@ args

\* a caller sends
sendTransaction ==
    /\ \E amountSatoshis \in SendAmounts, feeRate \in SendFeeRates,
          derivationFails \in BOOLEAN :
          sendTransactionWith(amountSatoshis, feeRate, derivationFails)
    /\ UNCHANGED <<sessionVars, scanVars, dialogVars>>

\* SendDialog.confirmAndSend, subscribe next: the dialog that is waiting for
\* the i-th send (it is broadcasting, and its send is the newest) shows the
\* result; a closed dialog's subscription has nothing left to show
subscriberNext(i, result, stage) ==
    IF step = "broadcasting" /\ i = Len(sends)
    THEN /\ broadcastResult' = result
         /\ step' = "result"
         /\ sendTrace' = Append(sendTrace, stage)
         /\ UNCHANGED preview
    ELSE UNCHANGED dialogVars

\* the broadcast request of the i-th send succeeds: map, then tap
broadcastAccepted(i) ==
    /\ i \in DOMAIN sends
    /\ sends[i].status = "inflight"
    /\ sends' = [sends EXCEPT ![i].status = "accepted"]
    /\ ret' = Emitted("broadcastTransaction",
                      [success |-> TRUE, txHash |-> "txid"], sends[i].usedUtxos)
    /\ IF mnemonic # NullStr
       THEN /\ CanStartScan
            /\ refreshBalanceStarts
            /\ UNCHANGED <<mnemonic, isLoggedIn, walletData, stored, loginsPending>>
       ELSE UNCHANGED sessionVars
    /\ subscriberNext(i, [success |-> TRUE, txHash |-> "txid"], "confirmed-pending")
    /\ UNCHANGED <<lockedUtxos, scanVars>>

\* the broadcast request of the i-th send fails: catchError
broadcastFailed(i) ==
    /\ i \in DOMAIN sends
    /\ sends[i].status = "inflight"
    /\ lockedUtxos' = unlockUtxos(sends[i].usedUtxos)
    /\ sends' = RemoveAt(sends, i)
    /\ \E error \in BroadcastErrors :
          /\ ret' = Emitted("broadcastTransaction",
                            [success |-> FALSE, error |-> broadcastErrorText(error)],
                            sends[i].usedUtxos) @@ [thrown |-> error]
          /\ subscriberNext(i, [success |-> FALSE, error |-> broadcastErrorText(error)],
                            "failed")
    /\ UNCHANGED <<sessionVars, scanVars>>

Init == ScanIdle /\ AppConstructed

Next ==
    \/ login
    \/ loginAfterLoadState
    \/ logout
    \/ refreshBalance
    \/ \E i \in 1..MaxScans : scanNext(i)
    \/ \E i \in 1..MaxScans : scanFailed(i)
    \/ SelectCoinsCall
    \/ sendTransaction
    \/ \E i \in 1..MaxSends : broadcastAccepted(i)
    \/ \E i \in 1..MaxSends : broadcastFailed(i)

Spec == Init /\ [][Next]_vars

-----------------------------------------------------------------------------
(* SendDialog driving the transaction service: SpecDialog *)

\* WalletTransactionService.createPreview (the BTC and percent figures, and
\* the addresses of the inputs, are display values and are left out)
createPreview(targetAddress, amountSatoshis, feeRate) ==
    LET coinSelection == selectCoins(amountSatoshis, feeRate)
    IN IF coinSelection = Null THEN Null
       ELSE LET outputCount == IF coinSelection.changeAmount > 0 THEN 2 ELSE 1
                sel == coinSelection.selectedUtxos
            IN [targetAddress |-> targetAddress,
                amountSatoshis |-> amountSatoshis,
                feeSatoshis |-> coinSelection.fee,
                feeRate |-> feeRate,
                totalSatoshis |-> amountSatoshis + coinSelection.fee,
                changeAmount |-> coinSelection.changeAmount,
                dustAddedToFee |-> coinSelection.dustAddedToFee,
                inputCount |-> Len(sel),
                outputCount |-> outputCount,
                estimatedSize |-> estimateTxSize(Len(sel), outputCount),
                inputs |-> [k \in DOMAIN sel |-> [valueSatoshis |-> sel[k].value]],
                outputs |->
                   <<[address |-> targetAddress, valueSatoshis |-> amountSatoshis,
                      isChange |-> FALSE]>>
                   \o IF coinSelection.changeAmount > 0
                         /\ coinSelection.changeAddress # Null
                      THEN <<[address |-> coinSelection.changeAddress,
                              valueSatoshis |-> coinSelection.changeAmount,
                              isChange |-> TRUE]>>
                      ELSE <<>>]

\* the template send-dialog.html: the step in which each button is shown
Offered(method) ==
    CASE method = "validateAndPreview" -> step = "input"
      [] method = "confirmAndSend" -> step = "confirm"
      [] method = "goBack" -> step = "confirm"
      [] OTHER -> step # "closed"

\* what the user types: the address, and the amount in units of 1e-8 BTC
DialogAddresses == {"", "not-an-address", "bc1qtarget"}
DialogAmounts == {Finite(0), Finite(100), Finite(546), Finite(2500), Finite(2850)}

\* Dashboard.openSendDialog: a new SendDialog with its initial signals
openSendDialog ==
    /\ step = "closed"
    /\ step' = "input"
    /\ UNCHANGED <<preview, broadcastResult, sendTrace>>
    /\ ret' = Null
    /\ UNCHANGED <<sessionVars, txVars, scanVars>>

\* SendDialog.validateAndPreview: the message it shows, NullStr when it
\* moves on to the confirmation
validateAndPreviewError(address, amount, feeRate) ==
    IF address = "" THEN "send.error.addressRequired"
    ELSE IF amount.kind = "NaN" \/ (amount.kind = "finite" /\ amount.v <= 0)
         THEN "send.error.amountRequired"
    ELSE IF ~validateSend(address, amount, feeRate).valid
         THEN validateSend(address, amount, feeRate).error
    ELSE IF createPreview(address, amount.v, feeRate) = Null
         THEN "send.error.cannotCreateTransaction"
    ELSE NullStr

\* SendDialog.validateAndPreview
validateAndPreview ==
    /\ Offered("validateAndPreview")
    /\ \E address \in DialogAddresses, amount \in DialogAmounts, feeRate \in SendFeeRates :
         \E errorMessage \in {validateAndPreviewError(address, amount, feeRate)} :
           /\ ret' = [op |-> "validateAndPreview", kind |-> "return",
                      errorMessage |-> errorMessage]
           /\ IF errorMessage # NullStr
              THEN UNCHANGED dialogVars
              ELSE /\ preview' = createPreview(address, amount.v, feeRate)
                   /\ step' = "confirm"
                   /\ sendTrace' = <<"validated">>
                   /\ UNCHANGED broadcastResult
    /\ UNCHANGED <<sessionVars, txVars, scanVars>>

\* mutant: the step is not looked at
goBack_anyStep ==
    /\ step # "closed"
    /\ step' = "input"
    /\ preview' = Null
    /\ sendTrace' = <<>>
    /\ UNCHANGED broadcastResult
    /\ ret' = [op |-> "goBack", kind |-> "return"]
    /\ UNCHANGED <<sessionVars, txVars, scanVars>>

\* SendDialog.goBack
goBack ==
    /\ step = "confirm"
    /\ step' = "input"
    /\ preview' = Null
    /\ sendTrace' = <<>>
    /\ UNCHANGED broadcastResult
    /\ ret' = [op |-> "goBack", kind |-> "return"]
    /\ UNCHANGED <<sessionVars, txVars, scanVars>>

\* SendDialog.confirmAndSend: the step is set to broadcasting and the send is
\* subscribed to; a value emitted at once moves the step on to result
confirmAndSend ==
    /\ Offered("confirmAndSend")
    /\ preview # Null
    /\ \E derivationFails \in BOOLEAN :
          sendTransactionWith(preview.amountSatoshis, preview.feeRate, derivationFails)
    /\ IF ret'.kind = "next"
       THEN /\ broadcastResult' = ret'.result
            /\ step' = "result"
            /\ sendTrace' = sendTrace
                  \o (IF prepareTransaction(preview.amountSatoshis, preview.feeRate) = Null
                      THEN <<>> ELSE <<"coinSelected">>)
                  \o <<"failed">>
       ELSE /\ step' = "broadcasting"
            /\ sendTrace' = sendTrace \o <<"coinSelected", "signed", "broadcast">>
            /\ UNCHANGED broadcastResult
    /\ UNCHANGED <<sessionVars, scanVars, preview>>

\* SendDialog.close or a click on the backdrop, then the dashboard's
\* afterClosed: a successful result refreshes the wallet
closeDialog ==
    /\ step # "closed"
    /\ step' = "closed"
    /\ preview' = Null
    /\ broadcastResult' = Null
    /\ sendTrace' = <<>>
    /\ \E result \in {Null, broadcastResult} :
          IF result # Null /\ result.success /\ mnemonic # NullStr
          THEN /\ CanStartScan
               /\ refreshBalanceStarts
               /\ UNCHANGED <<mnemonic, isLoggedIn, walletData, stored, loginsPending>>
          ELSE UNCHANGED sessionVars
    /\ ret' = Null
    /\ UNCHANGED <<txVars, scanVars>>

NextDialog ==
    \/ login
    \/ loginAfterLoadState
    \/ logout
    \/ refreshBalance
    \/ \E i \in 1..MaxScans : scanNext(i)
    \/ \E i \in 1..MaxScans : scanFailed(i)
    \/ openSendDialog
    \/ validateAndPreview
    \/ goBack
    \/ confirmAndSend
    \/ closeDialog
    \/ \E i \in 1..MaxSends : broadcastAccepted(i)
    \/ \E i \in 1..MaxSends : broadcastFailed(i)

SpecDialog == Init /\ [][NextDialog]_vars

-----------------------------------------------------------------------------
(* WalletScannerService.scanWallet: SpecWallet *)

\* what a branch scan can emit: its used addresses and their highest index
BranchResults(branch) ==
    IF branch = "receive"
    THEN {toBranchResult([usedAddresses |-> used]) :
             used \in {<<>>, <<AddressBalance(0, "receive", 3000)>>,
                       <<AddressBalance(0, "receive", 3000),
                         AddressBalance(2, "receive", 0)>>}}
    ELSE {toBranchResult([usedAddresses |-> used]) :
             used \in {<<>>, <<AddressBalance(0, "change", 5000)>>}}

\* the address string of an AddressBalance
addressOf(a) == <<a.branch, a.index>>

\* the provider's unspent outputs and transactions of an address
ChainUtxos(address) ==
    CASE address = <<"receive", 0>> -> <<Ua, Ub>>
      [] address = <<"change", 0>> -> <<Uc>>
      [] OTHER -> <<>>

RECURSIVE ChainTransactions(_)
ChainTransactions(addresses) ==
    IF addresses = <<>> THEN <<>>
    ELSE (CASE addresses[1] = <<"receive", 0>> -> <<"a">>
            [] addresses[1] = <<"change", 0>> -> <<"b">>
            [] OTHER -> <<"c">>)
         \o ChainTransactions(Tail(addresses))

\* results.flat()
RECURSIVE flat(_)
flat(results) ==
    IF results = <<>> THEN <<>> ELSE results[1] \o flat(Tail(results))

\* a request in flight, and an inner observable that has emitted `value`;
\* failed tells an answer from the catchError's replacement
Pending == [state |-> "pending"]
Emits(value, failed) == [state |-> "emitted", value |-> value, failed |-> failed]

\* mutant: only the receive branch's addresses are fetched
allAddresses_receiveOnly(receive, change) == receive.usedAddresses

\* scanWallet: [...receive.usedAddresses, ...change.usedAddresses]
allAddresses(receive, change) == receive.usedAddresses \o change.usedAddresses

\* allAddresses.map((a) => a.address)
addressStrings(addrs) == [k \in DOMAIN addrs |-> addressOf(addrs[k])]

\* the requests #fetchTransactions and #fetchUtxos issue on subscription
fetchRequests(addrs) ==
    <<[api |-> "getMultiAddressInfo", addresses |-> addressStrings(addrs)]>>
    \o [k \in DOMAIN addrs |->
          [api |-> "getUnspentOutputs", addresses |-> <<addressOf(addrs[k])>>]]

\* mutant: the fetches are started without looking at allAddresses.length
switchMapBranches_alwaysFetches(w) ==
    LET addrs == allAddresses(w.receive, w.change)
    IN [w EXCEPT !.pc = "fetching",
                 !.requests = fetchRequests(addrs),
                 !.transactions = Pending,
                 !.utxos = [k \in DOMAIN addrs |-> Pending]]

\* the switchMap of scanWallet once forkJoin has both branch results: the zero
\* result at once, or the two fetches
switchMapBranches(w) ==
    LET addrs == allAddresses(w.receive, w.change)
    IN IF Len(addrs) = 0
       THEN [w EXCEPT !.pc = "done", !.result = ZeroResult]
       ELSE [w EXCEPT !.pc = "fetching",
                      !.requests = fetchRequests(addrs),
                      !.transactions = Pending,
                      !.utxos = [k \in DOMAIN addrs |-> Pending]]

\* the map() after the forkJoin of the two fetches
forkJoinFetches(w) ==
    IF w.transactions # Pending /\ \A k \in DOMAIN w.utxos : w.utxos[k] # Pending
    THEN [w EXCEPT !.pc = "done",
                   !.result =
                      LET all == allAddresses(w.receive, w.change)
                          base == WalletScanResult(all, w.transactions.value,
                                     flat([k \in DOMAIN w.utxos |-> w.utxos[k].value]))
                      IN [base EXCEPT
                             !.highestUsedReceiveIndex = w.receive.highestUsedIndex,
                             !.highestUsedChangeIndex = w.change.highestUsedIndex]]
    ELSE w

\* what the subscriber of scanWallet got in this step
Delivered(w) ==
    IF w.pc = "done"
    THEN [op |-> "scanWallet", kind |-> "next", result |-> w.result]
    ELSE Null

\* subscribe to scanWallet: both branch scans start
scanWallet ==
    /\ walletScan.pc = "idle"
    /\ walletScan' = [walletScan EXCEPT !.pc = "branches"]
    /\ ret' = Null
    /\ UNCHANGED <<branchVars, sessionVars, txVars, dialogVars>>

\* a branch scan emits its result and completes; forkJoin emits on the second
branchScanCompletes(branch) ==
    /\ walletScan.pc = "branches"
    /\ walletScan[branch] = NoResult
    /\ \E result \in BranchResults(branch) :
          \E w \in {[walletScan EXCEPT ![branch] = result]} :
             \E next \in {IF w.receive # NoResult /\ w.change # NoResult
                          THEN switchMapBranches(w) ELSE w} :
                /\ walletScan' = next
                /\ ret' = Delivered(next)
    /\ UNCHANGED <<branchVars, sessionVars, txVars, dialogVars>>

\* #fetchTransactions: getMultiAddressInfo(addresses, 50, 0) answers, or
\* fails and catchError emits []
fetchTransactions ==
    /\ walletScan.pc = "fetching"
    /\ walletScan.transactions = Pending
    /\ \E fails \in BOOLEAN :
          \E next \in {forkJoinFetches([walletScan EXCEPT !.transactions =
                          IF fails THEN Emits(<<>>, TRUE)
                          ELSE Emits(ChainTransactions(walletScan.requests[1].addresses),
                                     FALSE)])} :
             /\ walletScan' = next
             /\ ret' = Delivered(next)
    /\ UNCHANGED <<branchVars, sessionVars, txVars, dialogVars>>

\* #fetchUtxos: getUnspentOutputs of the k-th address answers, or fails and
\* catchError emits []
fetchUtxos(k) ==
    /\ walletScan.pc = "fetching"
    /\ k \in DOMAIN walletScan.utxos
    /\ walletScan.utxos[k] = Pending
    /\ \E fails \in BOOLEAN :
          \E next \in {forkJoinFetches([walletScan EXCEPT !.utxos[k] =
                          IF fails THEN Emits(<<>>, TRUE)
                          ELSE Emits(ChainUtxos(walletScan.requests[k + 1].addresses[1]),
                                     FALSE)])} :
             /\ walletScan' = next
             /\ ret' = Delivered(next)
    /\ UNCHANGED <<branchVars, sessionVars, txVars, dialogVars>>

NextWallet ==
    \/ scanWallet
    \/ \E branch \in {"receive", "change"} : branchScanCompletes(branch)
    \/ fetchTransactions
    \/ \E k \in DOMAIN walletScan.utxos : fetchUtxos(k)

SpecWallet == Init /\ [][NextWallet]_vars

-----------------------------------------------------------------------------
(* WalletTransactionService.calculateFee applied to drawn inputs: SpecFee *)

\* fee rates in sat/vB: zero, whole and fractional ones
FeeRatesDrawn ==
    {Rate(0, 1), Rate(1, 2), Rate(1, 1), Rate(3, 2), Rate(7, 3), Rate(10, 1)}

\* calculateFee(numInputs, numOutputs, feeRate) called
CalculateFeeCall ==
    /\ \E numInputs \in 0..MaxFeeInputs, numOutputs \in 0..MaxFeeOutputs,
          feeRate \in FeeRatesDrawn :
          ret' = [op |-> "calculateFee", numInputs |-> numInputs,
                  numOutputs |-> numOutputs, feeRate |-> feeRate,
                  result |-> calculateFee(numInputs, numOutputs, feeRate)]
    /\ UNCHANGED <<sessionVars, txVars, scanVars, dialogVars>>

NextFee == CalculateFeeCall

SpecFee == Init /\ [][NextFee]_vars

-----------------------------------------------------------------------------
(* The lock interface called directly: SpecLocks *)

\* the lists a caller passes: the chain's outputs, and an output the wallet
\* has never held
Ud == UTXO("c", 0, 700, 2)

LockLists ==
    { <<>>, <<Ua>>, <<Ub>>, <<Uc>>, <<Ud>>, <<Ua, Ub>>, <<Ub, Uc>>, <<Ua, Ub, Uc>> }

\* the call a return value records, without what preceded it
CallOf(r) ==
    IF r = Null THEN Null
    ELSE IF r.op \in {"lockUtxos", "unlockUtxos", "clearLockedUtxos"}
         THEN [op |-> r.op, list |-> r.list]
         ELSE Null

\* a caller invokes lockUtxos(list)
LockUtxosCall ==
    /\ \E list \in LockLists :
          /\ lockedUtxos' = lockUtxos(list)
          /\ ret' = [op |-> "lockUtxos", list |-> list, previous |-> CallOf(ret)]
    /\ UNCHANGED <<sessionVars, sends, scanVars, dialogVars>>

\* a caller invokes unlockUtxos(list)
UnlockUtxosCall ==
    /\ \E list \in LockLists :
          /\ lockedUtxos' = unlockUtxos(list)
          /\ ret' = [op |-> "unlockUtxos", list |-> list, previous |-> CallOf(ret)]
    /\ UNCHANGED <<sessionVars, sends, scanVars, dialogVars>>

\* a caller invokes clearLockedUtxos()
ClearLockedUtxosCall ==
    /\ lockedUtxos' = clearLockedUtxos
    /\ ret' = [op |-> "clearLockedUtxos", list |-> <<>>, previous |-> CallOf(ret)]
    /\ UNCHANGED <<sessionVars, sends, scanVars, dialogVars>>

\* a session that is logged in and has never scanned; any set of locks
InitLocks ==
    /\ ScanIdle
    /\ mnemonic = "m1"
    /\ isLoggedIn = TRUE
    /\ balanceSatoshis = 0
    /\ usedAddresses = <<>>
    /\ transactions = <<>>
    /\ utxos = <<>>
    /\ isScanning = FALSE
    /\ scanError = NullStr
    /\ highestUsedReceiveIndex = -1
    /\ highestUsedChangeIndex = -1
    /\ stored = Null
    /\ loginsPending = 0
    /\ scans = <<>>
    /\ lockedUtxos \in {UtxoKeys(list) : list \in LockLists}
    /\ sends = <<>>
    /\ DialogClosed
    /\ ret = Null

NextLocks ==
    \/ LockUtxosCall
    \/ UnlockUtxosCall
    \/ ClearLockedUtxosCall
    \/ refreshBalance
    \/ \E i \in 1..MaxScans : scanNext(i)

SpecLocks == InitLocks /\ [][NextLocks]_vars

-----------------------------------------------------------------------------
(* Claims about the branch scan *)

queried == BATCH_SIZE * Len(requestedBatches)

RoundUpToBatch(n) == ((n + BATCH_SIZE - 1) \div BATCH_SIZE) * BATCH_SIZE

\* the first index that completes a run of GAP_LIMIT consecutive indices
\* outside S, looked for among the first n indices (n when there is none)
StopIndex(S, n) ==
    LET ends == {k \in (GAP_LIMIT - 1) .. (n - 1) : (k - GAP_LIMIT + 1 .. k) \cap S = {}}
    IN IF ends = {} THEN n ELSE CHOOSE k \in ends : \A j \in ends : k <= j

resultIndices ==
    [k \in 1..Len(branchResult.usedAddresses) |-> branchResult.usedAddresses[k].index]

\* C1: against a client reporting exactly the indices 0..4 as used, the branch
\* scan stops with highestUsedIndex = 4 after processing 5 + 20 addresses, the
\* balances of 30 addresses (25 rounded up to whole batches) having been
\* requested, which is not fewer than the 25 needed.
C1_GapLimitTermination ==
    (scanPc = "done" /\ chainUsed = 0..4 /\ seenUsed = 0..4) =>
        /\ branchResult.highestUsedIndex = 4
        /\ scanState.currentIndex = 5 + GAP_LIMIT
        /\ queried = RoundUpToBatch(5 + GAP_LIMIT)
        /\ queried >= 5 + GAP_LIMIT

C1_Witness ==
    /\ scanPc = "done"
    /\ chainUsed = 0..4
    /\ seenUsed = 0..4
    /\ Len(requestedBatches) = 3

\* C6: the result's usedAddresses are exactly the addresses reported with
\* transactionCount > 0 below the first index completing a run of 20 unused
\* ones, in increasing index order (an address after the stop index is left
\* out even inside the same batch), and highestUsedIndex is their maximum,
\* or -1 when there is none.
C6_UsedAddressesExact ==
    scanPc = "done" =>
        LET stop == StopIndex(seenUsed, queried)
            below == {i \in seenUsed : i < stop}
        IN /\ resultIndices = SortedSeq(below)
           /\ \A k \in 1..Len(branchResult.usedAddresses) :
                 branchResult.usedAddresses[k].transactionCount > 0
           /\ branchResult.highestUsedIndex =
                 IF below = {} THEN -1 ELSE CHOOSE m \in below : \A j \in below : j <= m

\* a used address lies after the stop index in the batch the scan stopped in
C6_Witness ==
    /\ scanPc = "done"
    /\ \E i \in seenUsed : i >= scanState.currentIndex
    /\ Len(branchResult.usedAddresses) > 0

\* C7: under fair responses of the chain-data client the branch scan reaches
\* done, consecutiveUnused then equals GAP_LIMIT, and it never exceeds
\* GAP_LIMIT in any scan state.
C7_ScanTerminates ==
    /\ <>(scanPc = "done")
    /\ [](scanPc = "done" => scanState.consecutiveUnused = GAP_LIMIT)
    /\ [](scanState.consecutiveUnused <= GAP_LIMIT)

C7_Witness ==
    /\ scanPc = "done"
    /\ scanState.done
    /\ scanState.consecutiveUnused = GAP_LIMIT
    /\ Len(requestedBatches) >= 4

-----------------------------------------------------------------------------
(* Claims about coin selection *)

Selected == ret # Null /\ ret.op = "selectCoins" /\ ret.result # Null

\* C4: every selection result conserves value: totalInputValue, which is the
\* sum of the selected outputs' values, equals amount + fee + changeAmount,
\* with and without a change output.
C4_Conservation ==
    Selected =>
        /\ ret.result.totalInputValue = SumValues(ret.result.selectedUtxos)
        /\ ret.result.totalInputValue =
              ret.amountSatoshis + ret.result.fee + ret.result.changeAmount

\* two inputs, no change, and a dust remainder folded into the fee
C4_Witness ==
    /\ Selected
    /\ Len(ret.result.selectedUtxos) = 2
    /\ ret.result.changeAmount = 0
    /\ ret.result.dustAddedToFee > 0

\* C5: a selection that stops with a remainder below the dust threshold has
\* no change output and reports the remainder over the one-output fee in
\* dustAddedToFee, the fee being that fee plus the dust; no result has a
\* change below the threshold, and dustAddedToFee is 0 when change is emitted.
C5_DustHandling ==
    Selected =>
        LET r == ret.result
            n == Len(r.selectedUtxos)
            feeOneOutput == calculateFee(n, 1, ret.feeRate)
            feeTwoOutputs == calculateFee(n, 2, ret.feeRate)
            remainder == r.totalInputValue - ret.amountSatoshis - feeOneOutput
        IN /\ ~(0 < r.changeAmount /\ r.changeAmount < DUST_THRESHOLD)
           /\ r.changeAmount > 0 => r.dustAddedToFee = 0
           /\ r.changeAmount = 0 =>
                 /\ r.dustAddedToFee = remainder
                 /\ r.fee = feeOneOutput + r.dustAddedToFee
           /\ (r.totalInputValue - ret.amountSatoshis - feeTwoOutputs < DUST_THRESHOLD) =>
                 /\ r.changeAmount = 0
                 /\ r.dustAddedToFee = remainder

\* a single input whose remainder with a change output would be positive
\* but below the threshold
C5_Witness ==
    /\ Selected
    /\ Len(ret.result.selectedUtxos) = 1
    /\ ret.result.changeAmount = 0
    /\ ret.result.dustAddedToFee > 0
    /\ ret.result.totalInputValue - ret.amountSatoshis
          - calculateFee(1, 2, ret.feeRate) > 0

\* C10: the spendable outputs are exactly those with confirmations > 0 whose
\* key is not locked, and every output of a selection result is one of them.
C10_SelectedAreSpendable ==
    /\ \A i \in DOMAIN utxos :
          (\E j \in DOMAIN getSpendableUtxos : getSpendableUtxos[j] = utxos[i])
             <=> (utxos[i].confirmations > 0 /\ getUtxoKey(utxos[i]) \notin lockedUtxos)
    /\ Selected =>
          \A k \in DOMAIN ret.result.selectedUtxos :
             /\ ret.result.selectedUtxos[k].confirmations > 0
             /\ getUtxoKey(ret.result.selectedUtxos[k]) \notin lockedUtxos

\* a locked output and an unconfirmed one, each worth more than a selected one
C10_Witness ==
    /\ Selected
    /\ \E i, j \in DOMAIN utxos :
          /\ getUtxoKey(utxos[i]) \in lockedUtxos
          /\ utxos[j].confirmations = 0
          /\ \A k \in DOMAIN ret.result.selectedUtxos :
                /\ utxos[i].value > ret.result.selectedUtxos[k].value
                /\ utxos[j].value > ret.result.selectedUtxos[k].value

-----------------------------------------------------------------------------
(* Claims about the session *)

\* C2: a scan that was in flight when logout() ran never writes its result:
\* when the `next` callback of a scan started before a logout runs, the
\* balance, the used addresses, the transactions, the UTXOs and the two
\* highest used indices stay as they were (after logout(): zero, empty, -1).
C2_NoCommitAfterLogout ==
    [][\A i \in DOMAIN scans :
          (scans[i].abandoned /\ scanNext(i)) => UNCHANGED walletData]_vars

-----------------------------------------------------------------------------
(* Claims about the locks and the send flow *)

\* the elements of a sequence
Range(s) == {s[k] : k \in DOMAIN s}

\* the last step was the call or the emission named
RetIs(op) == ret # Null /\ ret.op = op

\* the keys of the inputs of every send but the i-th (0: of every send)
OtherLiveKeys(i) == UNION {UtxoKeys(sends[j].usedUtxos) : j \in DOMAIN sends \ {i}}

\* C3: two sends never pick the same UTXO: the inputs of the sends whose
\* broadcast was submitted and has not failed are pairwise disjoint, and
\* neither selectCoins nor a new sendTransaction selects an input of such a
\* send, whatever the refreshes have written in between.
C3_NoDoubleSelection ==
    /\ \A i, j \in DOMAIN sends :
          i < j => UtxoKeys(sends[i].usedUtxos) \cap UtxoKeys(sends[j].usedUtxos) = {}
    /\ (RetIs("selectCoins") /\ ret.result # Null)
          => UtxoKeys(ret.result.selectedUtxos) \cap OtherLiveKeys(0) = {}
    /\ (RetIs("sendTransaction") /\ ret.kind = "pending")
          => /\ sends[Len(sends)].usedUtxos = ret.coinSelection.selectedUtxos
             /\ UtxoKeys(ret.coinSelection.selectedUtxos)
                   \cap OtherLiveKeys(Len(sends)) = {}

\* a second send was submitted while the first, accepted, is still listed
\* as unspent by the last refresh
C3_Witness ==
    /\ RetIs("sendTransaction") /\ ret.kind = "pending"
    /\ Len(sends) = 2
    /\ sends[1].status = "accepted"
    /\ sends[1].usedUtxos[1] \in Range(utxos)

\* the rejection of a broadcast was just delivered
BroadcastRejected == RetIs("broadcastTransaction") /\ ~ret.result.success

\* C8: a rejected broadcast is reversible: the step removes from the locked
\* set exactly the keys of that send's inputs; afterwards each of them is
\* unlocked and, if the wallet still lists it as confirmed, spendable again,
\* every other send still holds its locks, and the subscriber has received
\* a value { success: false, error } whose error is the provider's message.
C8_BroadcastFailureReversible ==
    /\ [](BroadcastRejected =>
            /\ ret.kind = "next"
            /\ ret.thrown.error # NullStr => ret.result.error = ret.thrown.error
            /\ \A u \in Range(ret.usedUtxos) :
                  /\ getUtxoKey(u) \notin lockedUtxos
                  /\ u \in Range(sessionSpendableUtxos) => u \in Range(getSpendableUtxos)
            /\ \A i \in DOMAIN sends : UtxoKeys(sends[i].usedUtxos) \subseteq lockedUtxos)
    /\ [][\A i \in DOMAIN sends :
            broadcastFailed(i)
               => lockedUtxos' = lockedUtxos \ UtxoKeys(sends[i].usedUtxos)]_vars

\* a send was rejected with the provider's message while another send is in
\* flight, and one of its inputs is spendable again
C8_Witness ==
    /\ BroadcastRejected
    /\ ret.thrown.error # NullStr
    /\ \E i \in DOMAIN sends : sends[i].status = "inflight"
    /\ \E u \in Range(ret.usedUtxos) : u \in Range(getSpendableUtxos)

\* the last two calls were lockUtxos(us) then unlockUtxos(us)
RoundTrip ==
    /\ RetIs("unlockUtxos")
    /\ ret.previous = [op |-> "lockUtxos", list |-> ret.list]

\* the step is one that unlocks key k: unlockUtxos with a list holding it,
\* or clearLockedUtxos
Unlocks(k) ==
    \/ UnlockUtxosCall /\ k \in UtxoKeys(ret'.list)
    \/ ClearLockedUtxosCall

\* C9: after lockUtxos(us) followed by unlockUtxos(us) no UTXO of us is
\* locked, and each that the wallet lists as confirmed is spendable; a locked
\* UTXO is never in getSpendableUtxos(), and it stays locked over every step
\* (a refresh included) that is neither an unlockUtxos of it nor
\* clearLockedUtxos.
C9_LockUnlockRoundTrip ==
    /\ [](RoundTrip =>
            \A u \in Range(ret.list) :
               /\ getUtxoKey(u) \notin lockedUtxos
               /\ u \in Range(sessionSpendableUtxos) => u \in Range(getSpendableUtxos))
    /\ [](\A u \in Range(getSpendableUtxos) : getUtxoKey(u) \notin lockedUtxos)
    /\ [][\A k \in lockedUtxos : k \in lockedUtxos' \/ Unlocks(k)]_vars

\* a round trip on a list with a confirmed output of the wallet, while
\* another output stays locked and out of the spendable set after a refresh
C9_Witness ==
    /\ RoundTrip
    /\ \E u \in Range(ret.list) : u \in Range(getSpendableUtxos)
    /\ \E u \in Range(sessionSpendableUtxos) : getUtxoKey(u) \in lockedUtxos

-----------------------------------------------------------------------------
(* Claims about insufficient funds and the selection order *)

\* the outputs selectCoins may draw from: spendable and economical
Economical(feeRate) == {u \in Range(getSpendableUtxos) : isEconomical(u, feeRate)}

\* the stop condition of the selection: with this many inputs of this total
\* value, change of at least the dust threshold, or a non-negative remainder
\* without change
Covers(n, total, amountSatoshis, feeRate) ==
    \/ total - amountSatoshis - calculateFee(n, 2, feeRate) >= DUST_THRESHOLD
    \/ total - amountSatoshis - calculateFee(n, 1, feeRate) >= 0

\* the sum of the values of a set of outputs
RECURSIVE SumOfSet(_)
SumOfSet(S) ==
    IF S = {} THEN 0
    ELSE LET u == CHOOSE x \in S : TRUE IN u.value + SumOfSet(S \ {u})

\* the last step was a selectCoins call
SelectCalled == ret # Null /\ ret.op = "selectCoins"

\* C11: selectCoins returns null, as a value, when the amount exceeds the
\* total spendable value, and when all economical spendable outputs together
\* do not cover amount + fee.
C11_InsufficientFunds ==
    SelectCalled =>
        /\ ret.amountSatoshis > SumValues(getSpendableUtxos) => ret.result = Null
        /\ ~Covers(Cardinality(Economical(ret.feeRate)),
                   SumOfSet(Economical(ret.feeRate)),
                   ret.amountSatoshis, ret.feeRate) => ret.result = Null

\* the loop ran over two economical outputs and gave up: the amount exceeds
\* what the wallet can spend
C11_Witness ==
    /\ SelectCalled
    /\ ret.result = Null
    /\ Cardinality(Economical(ret.feeRate)) >= 2
    /\ ret.amountSatoshis > SumValues(getSpendableUtxos)

\* C12: a selection is the shortest prefix, in descending effective value,
\* of the economical spendable outputs that meets the stop condition: the
\* selected outputs are distinct, economical and spendable, in descending
\* order of effective value; no unselected economical output has a larger
\* value than a selected one; the stop condition holds for the selection
\* and for none of its proper prefixes.
C12_LargestFirst ==
    Selected =>
        LET sel == ret.result.selectedUtxos
            rate == ret.feeRate
        IN /\ Len(sel) >= 1
           /\ Range(sel) \subseteq Economical(rate)
           /\ \A i, j \in DOMAIN sel : i < j =>
                 /\ sel[i] # sel[j]
                 /\ effectiveValue(sel[i], rate) >= effectiveValue(sel[j], rate)
           /\ \A u \in Economical(rate) \ Range(sel) :
                 \A k \in DOMAIN sel : u.value <= sel[k].value
           /\ \A k \in DOMAIN sel :
                 Covers(k, SumValues(SubSeq(sel, 1, k)), ret.amountSatoshis, rate)
                    <=> k = Len(sel)

\* two outputs were needed, and an uneconomical spendable output was
\* discarded
C12_Witness ==
    /\ Selected
    /\ Len(ret.result.selectedUtxos) = 2
    /\ \E u \in Range(getSpendableUtxos) : ~isEconomical(u, ret.feeRate)

\* C13: in every CoinSelectionResult, whether returned by selectCoins or
\* carried by a submitted send, changeAddress is non-null exactly when
\* changeAmount > 0.
C13_ChangeAddressIffChange ==
    /\ Selected =>
          (ret.result.changeAddress # Null <=> ret.result.changeAmount > 0)
    /\ (RetIs("sendTransaction") /\ ret.kind = "pending") =>
          (ret.coinSelection.changeAddress # Null <=> ret.coinSelection.changeAmount > 0)

\* the checks of a send, in the order of their tags
SendChecks(address, amount, feeRate) ==
    << [tag |-> "INVALID_ADDRESS", ok |-> address \in ValidAddresses],
       [tag |-> "INVALID_AMOUNT", ok |-> amount.kind = "finite" /\ amount.v > 0],
       [tag |-> "AMOUNT_TOO_SMALL", ok |-> amount.kind = "finite" /\ amount.v >= 546],
       [tag |-> "NO_MNEMONIC", ok |-> mnemonic # NullStr],
       [tag |-> "NO_UTXOS", ok |-> Range(getSpendableUtxos) # {}],
       [tag |-> "INSUFFICIENT_FUNDS",
        ok |-> amount.kind = "finite" /\ amount.v <= SumOfSet(Range(getSpendableUtxos))],
       [tag |-> "INSUFFICIENT_FOR_FEE",
        ok |-> amount.kind = "finite"
               /\ amount.v + calculateFee(1, 1, feeRate)
                     <= SumOfSet(Range(getSpendableUtxos))] >>

\* C14: validateSend returns a value; it is valid exactly when the address
\* is valid, the amount is at least 546, a mnemonic is present, there is a
\* spendable output and amount + calculateFee(1, 1, feeRate) is at most the
\* spendable total; otherwise its error is the tag of the first check that
\* fails, in the order INVALID_ADDRESS, INVALID_AMOUNT, AMOUNT_TOO_SMALL,
\* NO_MNEMONIC, NO_UTXOS, INSUFFICIENT_FUNDS, INSUFFICIENT_FOR_FEE.
C14_ValidateSendOrder ==
    RetIs("validateSend") =>
        LET checks == SendChecks(ret.address, ret.amountSatoshis, ret.feeRate)
            failing == {k \in DOMAIN checks : ~checks[k].ok}
        IN /\ ret.kind = "return"
           /\ ret.result.valid <=> failing = {}
           /\ failing # {} =>
                 ret.result.error = checks[CHOOSE k \in failing : \A j \in failing : k <= j].tag

\* every check but the last passes: the amount fits, the fee does not
C14_Witness ==
    /\ RetIs("validateSend")
    /\ ~ret.result.valid
    /\ ret.result.error = "INSUFFICIENT_FOR_FEE"

\* the sends whose broadcast request has not been answered
Inflight == {i \in DOMAIN sends : sends[i].status = "inflight"}

\* the last step delivered something to a subscriber of sendTransaction
SendEmitted == RetIs("sendTransaction") \/ RetIs("broadcastTransaction")

-----------------------------------------------------------------------------
(* Claims about the send dialog *)

SendStages == <<"validated", "coinSelected", "signed", "broadcast">>

\* the histories a send may have: a prefix of the stages, then at most one
\* final stage, "confirmed-pending" only after the broadcast
SendHistories ==
    {SubSeq(SendStages, 1, n) : n \in 0..4}
    \cup {Append(SubSeq(SendStages, 1, n), "failed") : n \in 1..4}
    \cup {Append(SendStages, "confirmed-pending")}

DialogMoves ==
    {<<"input", "confirm">>, <<"confirm", "broadcasting">>,
     <<"broadcasting", "result">>, <<"confirm", "input">>}

-----------------------------------------------------------------------------
(* Claims about provider failures and batch order in the branch scan *)

\* the indices of the batch the response r was for
BatchOf(r) == r.startIndex .. r.startIndex + BATCH_SIZE - 1

\* C17: a failed multi-address request is followed by the per-address
\* requests for the same batch without ending the scan; in their result an
\* address whose request failed counts as zero balance and zero transactions
\* while every other address keeps what the client reports for it, a used
\* one below the new current index being in the scan state with its balance;
\* and the scan goes on to the next batch or to its result.
C17_FailuresDoNotAbort ==
    [][/\ (ret' # Null /\ ret'.op = "getMultiAddressInfo" /\ ret'.kind = "error")
            => /\ scanPc' = "individual"
               /\ scanState' = scanState
               /\ branchResult' = NoResult
       /\ (ret' # Null /\ ret'.op = "getBalance")
            => /\ scanPc = "individual"
               /\ scanPc' \in {"multi", "done"}
               /\ scanPc' = "done" => branchResult' # NoResult
               /\ Len(ret'.batchResults) = BATCH_SIZE
               /\ \A k \in 1..BATCH_SIZE :
                     LET r == ret'.batchResults[k]
                     IN /\ r.index = ret'.startIndex + k - 1
                        /\ IF r.index \in ret'.failed
                           THEN r.balanceSatoshis = 0 /\ r.transactionCount = 0
                           ELSE /\ r.balanceSatoshis = ChainBalance(r.index)
                                /\ r.transactionCount = ChainTxCount(r.index)
               /\ \A i \in (BatchOf(ret') \cap chainUsed) \ ret'.failed :
                     i < scanState'.currentIndex
                        => \E k \in 1..Len(scanState'.usedAddresses) :
                              /\ scanState'.usedAddresses[k].index = i
                              /\ scanState'.usedAddresses[k].balanceSatoshis = ChainBalance(i)]_vars

\* a per-address request failed in a batch with another, used address, and
\* the scan has completed
C17_Witness ==
    /\ scanPc = "done"
    /\ Len(branchResult.usedAddresses) > 0
    /\ ret # Null
    /\ ret.op = "getBalance"
    /\ ret.failed # {}

\* C19: the batches are requested one at a time at the start indices 0, 10,
\* 20, ... with none skipped or repeated: the next is requested only in the
\* step that processes the answer to the one before, and none is requested
\* once the scan has stopped.
C19_BatchesInSequence ==
    /\ [](\A k \in 1..Len(requestedBatches) : requestedBatches[k] = (k - 1) * BATCH_SIZE)
    /\ [][requestedBatches' # requestedBatches
            => /\ requestedBatches' = Append(requestedBatches, Len(requestedBatches) * BATCH_SIZE)
               /\ scanPc # "done"
               /\ scanPc' = "multi"
               /\ ~scanState'.done
               /\ scanPc = "idle" \/ (ret' # Null /\ ret'.kind = "next"
                                        /\ ret'.startIndex = scanState.currentIndex
                                        /\ scanState.currentIndex
                                              = (Len(requestedBatches) - 1) * BATCH_SIZE)]_vars
    /\ [][scanPc = "done" => UNCHANGED requestedBatches]_vars

C19_Witness ==
    /\ scanPc = "done"
    /\ requestedBatches = <<0, 10, 20, 30>>
    /\ scanState.currentIndex < 40

-----------------------------------------------------------------------------
(* Claims about scanWallet *)

\* the fetches whose request failed
FailedFetches ==
    (IF walletScan.transactions # NoResult /\ walletScan.transactions # Pending
        /\ walletScan.transactions.failed
     THEN {0} ELSE {})
    \cup {k \in DOMAIN walletScan.utxos :
             walletScan.utxos[k] # Pending /\ walletScan.utxos[k].failed}

\* C18: a failed transaction-history or unspent-output request is never
\* delivered as an empty list inside a successfully emitted WalletScanResult.
C18_FetchFailureObservable ==
    (walletScan.pc = "done" /\ RetIs("scanWallet") /\ ret.kind = "next")
       => FailedFetches = {}

\* the addresses a list of requests of one api asks about
Asked(api) ==
    UNION {Range(walletScan.requests[k].addresses) :
              k \in {j \in DOMAIN walletScan.requests : walletScan.requests[j].api = api}}

\* C20: no transaction-history or unspent-output request is issued before
\* both branch scans have completed, and the requests then issued ask about
\* exactly the used addresses of the two branches together, once each.
C20_JoinBeforeFetch ==
    /\ []((walletScan.receive = NoResult \/ walletScan.change = NoResult)
            => walletScan.requests = <<>>)
    /\ [](walletScan.pc = "fetching" =>
            LET used == {addressOf(a) : a \in Range(walletScan.receive.usedAddresses)
                                              \cup Range(walletScan.change.usedAddresses)}
            IN /\ Asked("getMultiAddressInfo") = used
               /\ Asked("getUnspentOutputs") = used
               /\ Len(walletScan.requests) = 1 + Cardinality(used))
    /\ [][walletScan'.requests # walletScan.requests
            => /\ walletScan.requests = <<>>
               /\ walletScan.pc = "branches"
               /\ walletScan'.receive # NoResult
               /\ walletScan'.change # NoResult]_vars

\* both branches have used addresses and the four requests are in flight
C20_Witness ==
    /\ walletScan.pc = "fetching"
    /\ Len(walletScan.receive.usedAddresses) = 2
    /\ Len(walletScan.change.usedAddresses) = 1
    /\ Len(walletScan.requests) = 4
    /\ walletScan.transactions = Pending

\* both branch scans have completed and neither found a used address
NothingUsed ==
    /\ walletScan.receive # NoResult
    /\ walletScan.change # NoResult
    /\ walletScan.receive.usedAddresses = <<>>
    /\ walletScan.change.usedAddresses = <<>>

\* C21: when both branches finish with no used address, scanWallet emits the
\* zero result (empty usedAddresses, transactions and utxos, total balance 0,
\* both highest used indices -1) in that same step and issues no
\* transaction-history or unspent-output request.
C21_ZeroResultWithoutFetch ==
    NothingUsed =>
        /\ walletScan.pc = "done"
        /\ walletScan.requests = <<>>
        /\ walletScan.result.usedAddresses = <<>>
        /\ walletScan.result.transactions = <<>>
        /\ walletScan.result.utxos = <<>>
        /\ walletScan.result.totalBalanceSatoshis = 0
        /\ walletScan.result.highestUsedReceiveIndex = -1
        /\ walletScan.result.highestUsedChangeIndex = -1
        /\ ret = [op |-> "scanWallet", kind |-> "next", result |-> walletScan.result]

C21_Witness ==
    /\ NothingUsed
    /\ walletScan.pc = "done"
    /\ RetIs("scanWallet")
    /\ ret.result.totalBalanceSatoshis = 0

-----------------------------------------------------------------------------
(* Claims about the scanning flag and overlapping scans *)

\* the scans in flight that were started since the last logout
ScansOfSession == {i \in DOMAIN scans : ~scans[i].abandoned}

\* C22: in every session state in which a scan started by login or
\* refreshBalance since the last logout is still in flight, isScanning is
\* true.
C22_ScanningWhileInFlight ==
    ScansOfSession # {} => isScanning

-----------------------------------------------------------------------------
(* Claims about the maximum sendable amount and the fee *)

MaxCalled == RetIs("getMaxSendableAmount")

\* the total spendable value less the fee of spending all of it to one output
SpendAllRemainder(feeRate) ==
    SumOfSet(Range(getSpendableUtxos))
       - calculateFee(Cardinality(Range(getSpendableUtxos)), 1, feeRate)

\* C23 as stated: getMaxSendableAmount(feeRate) equals the total value of the
\* spendable outputs minus calculateFee(their number, 1, feeRate), for every
\* spendable set and fee rate.
C23_MaxIsTotalMinusFee ==
    MaxCalled => ret.result = SpendAllRemainder(ret.feeRate)

\* C23 amended: getMaxSendableAmount(feeRate) equals that difference when it
\* is positive and there is a spendable output, and 0 otherwise.
C23_MaxIsClampedTotalMinusFee ==
    MaxCalled =>
        ret.result = IF getSpendableUtxos # <<>> /\ SpendAllRemainder(ret.feeRate) > 0
                     THEN SpendAllRemainder(ret.feeRate)
                     ELSE 0

\* a positive maximum over a wallet with a locked and an unconfirmed output
C23_Witness ==
    /\ MaxCalled
    /\ ret.result > 0
    /\ Len(getSpendableUtxos) = 1
    /\ Len(utxos) = 3
    /\ lockedUtxos # {}
    /\ \E i \in DOMAIN utxos : utxos[i].confirmations = 0

FeeCalled == RetIs("calculateFee")

\* r1 <= r2 for two fee rates
RateLeq(r1, r2) == r1.num * r2.den <= r2.num * r1.den

\* C24: calculateFee(n, m, r) is the least integer not below
\* (11 + 68 n + 31 m) r, and it does not decrease when the input count, the
\* output count or the fee rate grows.
C24_FeeMonotone ==
    FeeCalled =>
        LET n == ret.numInputs
            m == ret.numOutputs
            r == ret.feeRate
            size == 11 + 68 * n + 31 * m
        IN /\ ret.result * r.den >= size * r.num
           /\ (ret.result - 1) * r.den < size * r.num
           /\ \A n2 \in n..(MaxFeeInputs + 1) : calculateFee(n2, m, r) >= ret.result
           /\ \A m2 \in m..(MaxFeeOutputs + 1) : calculateFee(n, m2, r) >= ret.result
           /\ \A r2 \in FeeRatesDrawn : RateLeq(r, r2) => calculateFee(n, m, r2) >= ret.result

\* a fee that is rounded up: 209 vB at 1.5 sat/vB
C24_Witness ==
    /\ FeeCalled
    /\ ret.numInputs = 2
    /\ ret.numOutputs = 2
    /\ ret.feeRate = Rate(3, 2)
    /\ ret.result = 314

-----------------------------------------------------------------------------
(* Claims about signing failures and the confirmed transaction *)

SigningErrors == {"No mnemonic available", "Failed to derive public key"}

\* the step was a sendTransaction whose signTransaction threw
SignFailedIn(r) ==
    /\ r # Null
    /\ r.op = "sendTransaction"
    /\ r.kind = "next"
    /\ r.result.error \in SigningErrors

\* C25: a sendTransaction in which signTransaction throws submits no
\* broadcast and leaves the locked set as it was, delivering one failure
\* value; and outputs are added to the locked set only in a step that
\* submits a broadcast of exactly those outputs.
C25_SigningFailureLeavesNoTrace ==
    [][/\ SignFailedIn(ret') =>
            /\ lockedUtxos' = lockedUtxos
            /\ sends' = sends
            /\ ~ret'.result.success
       /\ lockedUtxos' \ lockedUtxos # {} =>
            /\ Len(sends') = Len(sends) + 1
            /\ lockedUtxos' \ lockedUtxos = UtxoKeys(sends'[Len(sends')].usedUtxos)
            /\ ret'.kind = "pending"]_vars

\* key derivation failed while an earlier send's outputs were locked
C25_Witness ==
    /\ SignFailedIn(ret)
    /\ ret.result.error = "Failed to derive public key"
    /\ Len(sends) = 1
    /\ lockedUtxos = UtxoKeys(sends[1].usedUtxos)
    /\ lockedUtxos # {}

-----------------------------------------------------------------------------
(* Claims relating validation, selection and the maximum *)

\* C26: in every selectCoins result the fee is at least
\* calculateFee(|selectedUtxos|, k, feeRate), k being 2 when changeAmount > 0
\* and 1 otherwise, with equality when there is change; and the fee is not
\* below estimatedSize x feeRate of the PreparedTransaction built from it.
C26_FeeNotUnderpaid ==
    Selected =>
        LET r == ret.result
            k == IF r.changeAmount > 0 THEN 2 ELSE 1
            due == calculateFee(Len(r.selectedUtxos), k, ret.feeRate)
            prepared == prepareTransaction(ret.amountSatoshis, ret.feeRate)
        IN /\ r.fee >= due
           /\ r.changeAmount > 0 => r.fee = due
           /\ prepared # Null
           /\ prepared.coinSelection = r
           /\ r.fee * ret.feeRate.den >= prepared.estimatedSize * ret.feeRate.num

\* a selection with change at a fractional rate, and so a rounded-up fee
C26_Witness ==
    /\ Selected
    /\ ret.result.changeAmount > 0
    /\ Len(ret.result.selectedUtxos) = 2
    /\ ret.feeRate = Rate(3, 2)
    /\ ret.result.fee = 314

\* the last step was a validateSend call that returned valid
ValidatedSend == RetIs("validateSend") /\ ret.result.valid

\* C27 as stated: whenever validateSend returns valid, selectCoins and
\* createPreview on the same state return a result.
C27_ValidationSufficient ==
    ValidatedSend =>
        /\ selectCoins(ret.amountSatoshis.v, ret.feeRate) # Null
        /\ createPreview(ret.address, ret.amountSatoshis.v, ret.feeRate) # Null

\* one spendable output alone covers the amount and the one-input fee
OneInputCovers(amount, feeRate) ==
    \E u \in Range(getSpendableUtxos) : u.value >= amount + calculateFee(1, 1, feeRate)

\* C27 amended: when validateSend returns valid and one spendable output
\* alone covers amount + calculateFee(1, 1, feeRate), selectCoins and
\* createPreview return a result; and whenever selectCoins returns a result
\* for a valid address, an amount of at least 546 and a mnemonic present,
\* validateSend returns valid.
C27_ValidationNecessary ==
    RetIs("validateSend") =>
        /\ (ret.result.valid /\ OneInputCovers(ret.amountSatoshis.v, ret.feeRate))
              => /\ selectCoins(ret.amountSatoshis.v, ret.feeRate) # Null
                 /\ createPreview(ret.address, ret.amountSatoshis.v, ret.feeRate) # Null
        /\ ( /\ ret.address # ""
             /\ validateAddress(ret.address)
             /\ ret.amountSatoshis.kind = "finite"
             /\ ret.amountSatoshis.v >= MIN_SEND_AMOUNT
             /\ mnemonic # NullStr
             /\ selectCoins(ret.amountSatoshis.v, ret.feeRate) # Null )
              => ret.result.valid

\* valid, covered by one of two spendable outputs, and selected
C27_Witness ==
    /\ ValidatedSend
    /\ Len(getSpendableUtxos) = 2
    /\ OneInputCovers(ret.amountSatoshis.v, ret.feeRate)
    /\ Len(selectCoins(ret.amountSatoshis.v, ret.feeRate).selectedUtxos) = 1

\* the last step selected coins for the maximum sendable amount
MaxSelected ==
    /\ SelectCalled
    /\ ret.amountSatoshis > 0
    /\ ret.amountSatoshis = getMaxSendableAmount(ret.feeRate)

\* C28: for every spendable set and fee rate with a positive maximum sendable
\* amount, selectCoins of that amount returns a result, also when
\* uneconomical outputs are counted in the maximum.
C28_MaxIsSendable ==
    MaxSelected => ret.result # Null

\* the maximum counts an uneconomical output and two economical ones
C28_Witness ==
    /\ MaxSelected
    /\ ret.result # Null
    /\ Len(getSpendableUtxos) = 3
    /\ \E u \in Range(getSpendableUtxos) : ~isEconomical(u, ret.feeRate)
    /\ Len(ret.result.selectedUtxos) = 2

\* C29: the transaction confirmAndSend submits for broadcast has the inputs,
\* the fee and the change amount of the TransactionPreview shown at the
\* confirm step, whatever refresh, lock or unlock happened since the preview
\* was made.
C29_BroadcastIsConfirmed ==
    [][(step = "confirm" /\ Len(sends') > Len(sends)) =>
          LET coinSelection == ret'.coinSelection
              sel == coinSelection.selectedUtxos
          IN /\ Len(sel) = preview.inputCount
             /\ [k \in DOMAIN sel |-> sel[k].value]
                   = [k \in DOMAIN preview.inputs |-> preview.inputs[k].valueSatoshis]
             /\ coinSelection.fee = preview.feeSatoshis
             /\ coinSelection.changeAmount = preview.changeAmount]_vars

-----------------------------------------------------------------------------
(* Claims about overlapping scans *)

\* the scan started last of those in flight has just delivered its result,
\* and the i-th scan, started before it in the same session, is the only one
\* still in flight
NewerScanDelivered(i) ==
    /\ RetIs("scanNext")
    /\ ret.index = ret.inFlight
    /\ ~ret.abandoned
    /\ Len(scans) = 1
    /\ loginsPending = 0
    /\ i = 1
    /\ i < ret.index
    /\ ~scans[i].abandoned

\* C30: when the scan started last has delivered its result and a scan
\* started before it then delivers its own, the balance, the used addresses,
\* the transactions, the UTXOs and the highest used indices stay those of the
\* scan started last.
C30_LastStartedScanWins ==
    [][\A i \in DOMAIN scans :
          (NewerScanDelivered(i) /\ scanNext(i)) =>
              /\ balanceSatoshis' = ret.result.totalBalanceSatoshis
              /\ usedAddresses' = ret.result.usedAddresses
              /\ transactions' = ret.result.transactions
              /\ utxos' = ret.result.utxos
              /\ highestUsedReceiveIndex' = ret.result.highestUsedReceiveIndex
              /\ highestUsedChangeIndex' = ret.result.highestUsedChangeIndex]_vars
=============================================================================
